---- MODULE Spec2Model ----
(***************************************************************************)
(* State-machine model of the Firecracker host agent: the HTTP handlers    *)
(* (api/handlers.py), the local CLI commands (cli/commands.py), the        *)
(* process supervisor (orchestration/vm_manager.py) and the back ends they *)
(* drive.  One action per handler or command; the host (files, processes,  *)
(* multiplexer sessions, TAP links) is the state.                          *)
(***************************************************************************)
EXTENDS Integers, Sequences, FiniteSets, TLC

(* ------------------------------------------------------------------ *)
(* Bounds                                                               *)
(* ------------------------------------------------------------------ *)

\* Hypervisor processes that may be spawned in one behaviour.
MaxPid == 2

\* A file that does not exist.
NoFile == [exists |-> FALSE, nics |-> <<>>]

\* vm-states.json does not exist.
NoStates == [exists |-> FALSE, names |-> {}]

\* No call is under way.
NoThreads == [t \in {} |-> [pc |-> ""]]

\* No console bridge was started: no state file, no bridge process; 0 names no bridge.
NoConsole == [state |-> 0, alive |-> {}, next |-> 1]

\* No write of a state-store file is under way.
NoWrite == [kind |-> "none"]

\* A file was opened for writing and holds a part of the document written to it:
\* open("w") truncates the file, json.dump fills it, close() flushes the rest.
Partial(f) == "partial" \in DOMAIN f

(* ------------------------------------------------------------------ *)
(* Characters and names                                                 *)
(* ------------------------------------------------------------------ *)

LowerCase == {"a","b","c","d","e","f","g","h","i","j","k","l","m",
              "n","o","p","q","r","s","t","u","v","w","x","y","z"}
UpperCase == {"A","B","C","D","E","F","G","H","I","J","K","L","M",
              "N","O","P","Q","R","S","T","U","V","W","X","Y","Z"}
DigitChars == {"0","1","2","3","4","5","6","7","8","9"}

\* VM names are sequences of one-character strings.
VmA == <<"v","m","-","a">>
\* A second valid name, with the same letters and digits as the first.
VmB == <<"v","m","a">>
BadName == <<"b","a","d"," ","!">>
SlashName == <<"a","/","b">>
\* A name that climbs out of the directory it is joined to.
DotDotName == <<"x","/",".",".","/",".",".","/","e">>
NoName == <<>>
\* Two valid names that differ only after their tenth letter or digit.
LongNames == { <<"v","m","-","a","b","c","d","e","f","g","h","i","j">>,
               <<"v","m","-","a","b","c","d","e","f","g","h","i","k">> }
\* vm_name = f"unknown-{int(time.time())}"; "T" stands for the digits of the clock.
UnknownTs == <<"u","n","k","n","o","w","n","-","T">>
\* vm_details.get("name", "unknown")
UnknownDefault == <<"u","n","k","n","o","w","n">>

\* Names a by-name artifact (config, pid, socket, log, volume, snapshot) is kept for.
VmNames == {VmA, VmB, UnknownDefault} \cup LongNames
\* Names the by-name endpoints are called with.
Targets == {VmA}
\* File names create-spec-<key>.json the payload directory may hold.
PayloadKeys == {VmA, VmB, BadName, UnknownTs, SlashName, DotDotName}

RECURSIVE AllIn(_, _)
AllIn(s, chars) == IF s = <<>> THEN TRUE
                   ELSE Head(s) \in chars /\ AllIn(Tail(s), chars)

\* re.match(r"^[A-Za-z0-9-]+$", name or ""): "$" also matches before one final newline.
NameMatches(name) ==
    LET core == IF Len(name) > 0 /\ name[Len(name)] = "\n"
                THEN SubSeq(name, 1, Len(name) - 1) ELSE name
    IN  Len(core) > 0 /\ AllIn(core, LowerCase \cup UpperCase \cup DigitChars \cup {"-"})

\* validate_name: TRUE when no ValueError is raised.
validate_name(name) == NameMatches(name)

HasSlash(name) == \E i \in 1..Len(name) : name[i] = "/"

(* ------------------------------------------------------------------ *)
(* NICs, broadcast URIs, TAP names                                      *)
(* ------------------------------------------------------------------ *)

\* The VLAN id standing for Python's None.
NoVid == -1

\* A broadcastUri: its scheme ("vlan" when the text holds "vlan://") and the text after "://".
NoUri == [scheme |-> "", rest |-> <<>>]
Vlan42 == [scheme |-> "vlan", rest |-> <<"4","2">>]
BadUri == [scheme |-> "vlan", rest |-> <<"x">>]

DigitVal(c) == CASE c = "0" -> 0 [] c = "1" -> 1 [] c = "2" -> 2 [] c = "3" -> 3
                 [] c = "4" -> 4 [] c = "5" -> 5 [] c = "6" -> 6 [] c = "7" -> 7
                 [] c = "8" -> 8 [] c = "9" -> 9

RECURSIVE ToInt(_)
ToInt(s) == IF s = <<>> THEN 0
            ELSE 10 * ToInt(SubSeq(s, 1, Len(s) - 1)) + DigitVal(s[Len(s)])

IsDigits(s) == Len(s) > 0 /\ AllIn(s, DigitChars)

\* vid_from_buri(broadcast_uri, None): ^vlan://(\d+)$ or None.
vid_from_buri(uri) ==
    IF uri.scheme = "vlan" /\ IsDigits(uri.rest) THEN ToInt(uri.rest) ELSE NoVid

DigitChar(d) == CASE d = 0 -> "0" [] d = 1 -> "1" [] d = 2 -> "2" [] d = 3 -> "3"
                  [] d = 4 -> "4" [] d = 5 -> "5" [] d = 6 -> "6" [] d = 7 -> "7"
                  [] d = 8 -> "8" [] d = 9 -> "9"

RECURSIVE Decimal(_)
Decimal(n) == IF n < 10 THEN <<DigitChar(n)>>
              ELSE Decimal(n \div 10) \o <<DigitChar(n % 10)>>

\* f"vlan://{vlan}"
VlanUri(vlan) == [scheme |-> "vlan", rest |-> Decimal(vlan)]

ToLower(c) ==
    CASE c = "A" -> "a" [] c = "B" -> "b" [] c = "C" -> "c" [] c = "D" -> "d"
      [] c = "E" -> "e" [] c = "F" -> "f" [] c = "G" -> "g" [] c = "H" -> "h"
      [] c = "I" -> "i" [] c = "J" -> "j" [] c = "K" -> "k" [] c = "L" -> "l"
      [] c = "M" -> "m" [] c = "N" -> "n" [] c = "O" -> "o" [] c = "P" -> "p"
      [] c = "Q" -> "q" [] c = "R" -> "r" [] c = "S" -> "s" [] c = "T" -> "t"
      [] c = "U" -> "u" [] c = "V" -> "v" [] c = "W" -> "w" [] c = "X" -> "x"
      [] c = "Y" -> "y" [] c = "Z" -> "z" [] OTHER -> c

RECURSIVE Sanitize(_)
\* re.sub(r"[^a-zA-Z0-9]", "", vm_name).lower()
Sanitize(s) ==
    IF s = <<>> THEN <<>>
    ELSE IF Head(s) \in LowerCase \cup UpperCase \cup DigitChars
         THEN <<ToLower(Head(s))>> \o Sanitize(Tail(s))
         ELSE Sanitize(Tail(s))

\* f"f{int(device_id)}-{v}" with v cut to 10 characters.
tap_name(device_id, vm_name) ==
    LET v == Sanitize(vm_name)
        w == IF Len(v) > 10 THEN SubSeq(v, 1, 10) ELSE v
    IN  <<"f">> \o Decimal(device_id) \o <<"-">> \o w

Mac1 == "02:00:00:00:00:01"

\* NICs as the orchestrator payload carries them.
NicVlan == [deviceId |-> 0, mac |-> Mac1, broadcastUri |-> Vlan42]
NicBadUri == [deviceId |-> 0, mac |-> Mac1, broadcastUri |-> BadUri]

\* A raw payload: cloudstack.vm.details.name and .nics, and the kernel file name it
\* carries ("" when it carries none).
Payload(name, nics, kernel) == [name |-> name, nics |-> nics, kernel |-> kernel]

\* Payloads the orchestrator sends to POST /v1/vms.
ApiPayloads == { Payload(VmA, <<NicVlan>>, "vmlinux.bin"),
                 Payload(BadName, <<NicVlan>>, ""), Payload(SlashName, <<NicVlan>>, "") }

\* Payload files handed to the local CLI.
CliPayloads == { Payload(VmA, <<>>, "vmlinux.bin"), Payload(VmA, <<NicVlan>>, "vmlinux.bin"),
                 Payload(VmA, <<NicBadUri>>, "vmlinux.bin") }

\* Payloads the orchestrator sends for VMs with VLAN-backed NICs: VLAN 42; VLANs 7 and
\* 42 on two NICs, listed out of order; VLAN 1; VLAN 0; and a second VM on VLAN 7.
NetPayloads ==
    { Payload(VmA, <<NicVlan>>, "vmlinux.bin"),
      Payload(VmA, <<[deviceId |-> 1, mac |-> "02:00:00:00:00:02", broadcastUri |-> VlanUri(7)],
                     NicVlan>>, "vmlinux.bin"),
      Payload(VmA, <<[NicVlan EXCEPT !.broadcastUri = VlanUri(1)]>>, "vmlinux.bin"),
      Payload(VmA, <<[NicVlan EXCEPT !.broadcastUri = VlanUri(0)]>>, "vmlinux.bin"),
      Payload(VmB, <<[NicVlan EXCEPT !.mac = "02:00:00:00:00:02", !.broadcastUri = VlanUri(7)]>>,
              "vmlinux.bin") }

\* Payload files handed to fc-agent net-prepare: short and long names, device ids of
\* one and of four digits.
TapPayloads ==
    { Payload(n, <<[NicVlan EXCEPT !.deviceId = d]>>, "vmlinux.bin") :
        n \in {VmA} \cup LongNames, d \in {0, 1000} }

(* ------------------------------------------------------------------ *)
(* The host                                                             *)
(* ------------------------------------------------------------------ *)

VARIABLES
    payload,    \* <payload_dir>/create-spec-<key>.json: present, and the request it holds
    config,     \* <conf_dir>/<vm>.json: the hypervisor config or NoFile
    pidfile,    \* <run_dir>/<vm>.pid: the recorded PID, 0 when the file is absent
    socket,     \* <run_dir>/<vm>.socket exists
    logf,       \* <log_dir>/<vm>.log exists
    volume,     \* <volume_dir>/<vm>.img: what the file holds, Absent when there is none
    lvs,        \* the volume group: what each logical volume holds, Absent when there is none
    netsnap,    \* <run_dir>/network-config-<vm>.json: the NIC list or NoFile
    vm_states,  \* <run_dir>/vm-states.json: the names it records as running, or NoStates
    writing,    \* the write of a state-store file that a handler has under way, or NoWrite
    proc,       \* PID of the live hypervisor process serving <vm>'s socket path, 0 when none
    session,    \* the supervising session fc-<vm> exists
    taps,       \* TAP links on the host
    vlans,      \* the bridge's VLAN table: one entry per port and VID, with its flags
    ovs,        \* the Open vSwitch database: ports with their access tag, the uplink's trunks
    fdb,        \* the bridge's forwarding entries primed by prepare, each with its timer
    agent_defaults, \* the agent's configuration, fixed when it starts
    nextPid,    \* the PID the next spawned process gets
    resp,       \* the last request and its response
    trace,      \* the steps the last handler performed, in order
    known,      \* history: <vm> was created by a create that succeeded and not deleted since
    threads,    \* the calls under way: for each, its operation, its position and what it has read
    vnc         \* the console bridges: the one the state file names, the live ones, the next id

vars == <<payload, config, pidfile, socket, logf, volume, lvs, netsnap, vm_states, writing,
          proc, session,
          taps, vlans, ovs, fdb, agent_defaults, nextPid, resp, trace, known, threads,
          vnc>>

\* The host as one value, threaded through the steps of a handler.
World == [payload |-> payload, config |-> config, pidfile |-> pidfile,
          socket |-> socket, logf |-> logf, volume |-> volume, lvs |-> lvs, netsnap |-> netsnap,
          vm_states |-> vm_states,
          proc |-> proc, session |-> session, taps |-> taps, vlans |-> vlans, ovs |-> ovs,
          fdb |-> fdb,
          agent_defaults |-> agent_defaults, nextPid |-> nextPid]

\* What a request finds on the host: the source image, the bridge, the kernel image, a
\* working multiplexer, a hypervisor that comes up, a PID found by the discovery scan.
\* A pipeline stops at its first failing step, so one failing step per request is enough.
EnvOk == [imageOk |-> TRUE, bridgeOk |-> TRUE, kernelOk |-> TRUE, tmuxOk |-> TRUE,
          launched |-> TRUE, pidFound |-> TRUE]

Envs == { EnvOk,
          [EnvOk EXCEPT !.pidFound = FALSE],
          [EnvOk EXCEPT !.launched = FALSE, !.pidFound = FALSE],
          [EnvOk EXCEPT !.tmuxOk = FALSE, !.launched = FALSE, !.pidFound = FALSE],
          [EnvOk EXCEPT !.kernelOk = FALSE],
          [EnvOk EXCEPT !.bridgeOk = FALSE],
          [EnvOk EXCEPT !.imageOk = FALSE] }

\* start_vm reads only the multiplexer, the launch and the discovery scan.
StartEnvs == { e \in Envs : e.imageOk /\ e.bridgeOk /\ e.kernelOk }

\* CLICommands.start also prepares the network.
CliStartEnvs == { e \in Envs : e.imageOk /\ e.kernelOk }

AllSucceed(e) == e.imageOk /\ e.bridgeOk /\ e.kernelOk /\ e.tmuxOk /\ e.launched

(* ------------------------------------------------------------------ *)
(* Spec model                                                           *)
(* ------------------------------------------------------------------ *)

HostDetailsFields == {"firecracker_bin", "conf_dir", "run_dir", "log_dir"}

\* The dataclass constructor: TRUE when the keyword arguments are exactly its fields,
\* FALSE when it raises TypeError.
HostDetails(kwargs) == kwargs = HostDetailsFields

ApiHostKwargs == {"firecracker_bin", "conf_dir", "run_dir", "log_dir", "payload_dir"}
CliHostKwargs == {"firecracker_bin", "conf_dir", "run_dir", "log_dir"}

\* int(uri.split("://")[1]) if "vlan://" in uri else None; raises ValueError on non-digits.
NicVlanRaises(nic) == nic.broadcastUri.scheme = "vlan" /\ ~IsDigits(nic.broadcastUri.rest)
NicVlanOf(nic) == IF nic.broadcastUri.scheme = "vlan" THEN ToInt(nic.broadcastUri.rest) ELSE NoVid

SpecName(p) == IF p.name = NoName THEN UnknownDefault ELSE p.name

\* APIHandlers._to_spec
ApiToSpec(p) ==
    IF \E i \in 1..Len(p.nics) : NicVlanRaises(p.nics[i]) THEN [exc |-> "ValueError"]
    ELSE IF ~HostDetails(ApiHostKwargs) THEN [exc |-> "TypeError"]
    ELSE [exc |-> "ok",
          spec |-> [name |-> SpecName(p),
                    nics |-> [i \in 1..Len(p.nics) |->
                                [deviceId |-> p.nics[i].deviceId, mac |-> p.nics[i].mac,
                                 vlan |-> NicVlanOf(p.nics[i]),
                                 broadcastUri |-> p.nics[i].broadcastUri]],
                    kernel |-> "set"]]

\* CLICommands._to_spec: the NIC's broadcastUri is not passed on; the kernel is the
\* payload's own.
CliToSpec(p) ==
    IF \E i \in 1..Len(p.nics) : NicVlanRaises(p.nics[i]) THEN [exc |-> "ValueError"]
    ELSE IF ~HostDetails(CliHostKwargs) THEN [exc |-> "TypeError"]
    ELSE [exc |-> "ok",
          spec |-> [name |-> SpecName(p),
                    nics |-> [i \in 1..Len(p.nics) |->
                                [deviceId |-> p.nics[i].deviceId, mac |-> p.nics[i].mac,
                                 vlan |-> NicVlanOf(p.nics[i]),
                                 broadcastUri |-> NoUri]],
                    kernel |-> IF p.kernel = "" THEN "" ELSE "set"]]

\* f"eth{nic.deviceId}"
EthName(device_id) == <<"e","t","h">> \o Decimal(device_id)

RECURSIVE DigitsOf(_)
\* "".join(filter(str.isdigit, iface_id))
DigitsOf(s) == IF s = <<>> THEN <<>>
               ELSE IF Head(s) \in DigitChars THEN <<Head(s)>> \o DigitsOf(Tail(s))
               ELSE DigitsOf(Tail(s))

\* The device id _cfg_to_spec reads out of an iface_id; the position when it holds no digit.
CfgDeviceId(iface_id, position) ==
    IF DigitsOf(iface_id) = <<>> THEN position ELSE ToInt(DigitsOf(iface_id))

\* The config's network-interfaces as _cfg_to_spec reads them back.
CfgNics(cfg) == [i \in 1..Len(cfg.nics) |->
                   [deviceId |-> CfgDeviceId(cfg.nics[i].iface_id, i - 1),
                    mac |-> cfg.nics[i].guest_mac,
                    vlan |-> NoVid, broadcastUri |-> NoUri]]

\* APIHandlers._cfg_to_spec
ApiCfgToSpec(cfg, vm_name) ==
    IF ~HostDetails(ApiHostKwargs) THEN [exc |-> "TypeError"]
    ELSE [exc |-> "ok", spec |-> [name |-> vm_name, nics |-> CfgNics(cfg), kernel |-> "set"]]

\* The minimal Spec that stop and status build from the VM name alone.
ApiMinimalSpec(vm_name) ==
    IF ~HostDetails(ApiHostKwargs) THEN [exc |-> "TypeError"]
    ELSE [exc |-> "ok", spec |-> [name |-> vm_name, nics |-> <<>>, kernel |-> ""]]

\* A lookup that takes a missing config file for an empty config.
read_cfg_missing_as_empty(w, vm_name) == [exists |-> TRUE, nics |-> w.config[vm_name].nics]

\* read_cfg_json_by_name: the config, or NoFile (Python's None) when the file is absent.
read_cfg_json_by_name(w, vm_name) == w.config[vm_name]

(* ------------------------------------------------------------------ *)
(* Storage back ends                                                    *)
(* ------------------------------------------------------------------ *)

\* What a volume holds: nothing since it was created, an empty file system, a copy of
\* the source image, or that copy as a guest has changed it since.
Absent == "absent"
Unformatted == "unformatted"
EmptyFs == "mkfs"
ImageCopy == "image"
GuestData == "guest"

\* get_backend_by_driver: LvmBackend(vg, f"vm-{spec.vm.name}", ...)
VmLv(vm_name) == <<"v","m","-">> \o vm_name
\* _base_lv_name_for_image: f"base-{image_path.stem}", for the one source image
BaseLv == <<"b","a","s","e","-","r","o","o","t","f","s">>
LvNames == { VmLv(n) : n \in VmNames } \cup {BaseLv}

\* What a back-end method returns: the host, the exception raised ("ok" when none), and
\* the commands it ran.
Ran(w, exc, cmds) == [w |-> w, exc |-> exc, cmds |-> cmds]

FileBackendMethods == {"prepare", "device_path", "delete", "cleanup"}

\* A prepare that copies the image whether or not the volume exists.
FileBackend_prepare_recopy(w, vm_name, env) ==
    IF ~env.imageOk THEN Ran(w, "FileNotFoundError", <<>>)
    ELSE Ran([w EXCEPT !.volume[vm_name] = ImageCopy], "ok", <<"mkdir", "copyfile", "chmod">>)

\* FileBackend.prepare: copy the image to the volume unless the volume exists.
FileBackend_prepare(w, vm_name, env) ==
    IF ~env.imageOk THEN Ran(w, "FileNotFoundError", <<>>)
    ELSE IF w.volume[vm_name] = Absent
    THEN Ran([w EXCEPT !.volume[vm_name] = ImageCopy], "ok", <<"mkdir", "copyfile", "chmod">>)
    ELSE Ran(w, "ok", <<"mkdir", "chmod">>)

\* FileBackend.delete: unlink the volume, a missing file is no error.
FileBackend_delete(w, vm_name) == Ran([w EXCEPT !.volume[vm_name] = Absent], "ok", <<"unlink">>)

\* FileBackend.cleanup -> delete
FileBackend_cleanup(w, vm_name) == FileBackend_delete(w, vm_name).w

\* lvm_helpers.lv_exists
lv_exists(w, lv) == w.lvs[lv] # Absent

\* lvremove -f vg/lv: fails when the volume group has no such logical volume.
lvremove(w, lv) ==
    IF lv_exists(w, lv) THEN Ran([w EXCEPT !.lvs[lv] = Absent], "ok", <<"lvremove">>)
    ELSE Ran(w, "StorageError", <<"lvremove">>)

\* copy_image_to_device: dd fails, before it writes, when the image is missing.
copy_image_to_device(r, lv, env) ==
    IF r.exc # "ok" THEN r
    ELSE IF ~env.imageOk THEN Ran(r.w, "StorageError", Append(r.cmds, "dd"))
    ELSE Ran([r.w EXCEPT !.lvs[lv] = ImageCopy], "ok", Append(r.cmds, "dd"))

\* lvcreate, detect_fstype_from_image (ext4 when the image cannot be read), mkfs_device
CreateLv(w, lv) == Ran([w EXCEPT !.lvs[lv] = EmptyFs], "ok", <<"lvs", "lvcreate", "mkfs">>)

\* LvmBackend.prepare: create the logical volume unless it exists, then copy the image.
LvmBackend_prepare(w, vm_name, env) ==
    copy_image_to_device(IF lv_exists(w, VmLv(vm_name)) THEN Ran(w, "ok", <<"lvs">>)
                         ELSE CreateLv(w, VmLv(vm_name)),
                         VmLv(vm_name), env)

\* LvmBackend.delete
LvmBackend_delete(w, vm_name) == lvremove(w, VmLv(vm_name))

\* LvmThinBackend.prepare, lines 25-34: the base volume
ThinBase(w, env) ==
    IF lv_exists(w, BaseLv) THEN Ran(w, "ok", <<"lvs">>)
    ELSE copy_image_to_device(CreateLv(w, BaseLv), BaseLv, env)

\* LvmThinBackend.prepare, lines 36-39: the VM's snapshot of the base volume
ThinSnapshot(r, lv) ==
    IF r.exc # "ok" THEN r
    ELSE IF lv_exists(r.w, lv) THEN Ran(r.w, "ok", r.cmds \o <<"lvs", "lvchange">>)
    ELSE Ran([r.w EXCEPT !.lvs[lv] = r.w.lvs[BaseLv]], "ok", r.cmds \o <<"lvs", "lvcreate">>)

\* LvmThinBackend.prepare
LvmThinBackend_prepare(w, vm_name, env) == ThinSnapshot(ThinBase(w, env), VmLv(vm_name))

\* LvmThinBackend.delete
LvmThinBackend_delete(w, vm_name) == lvremove(w, VmLv(vm_name))

StorageDrivers == {"file", "lvm", "lvmthin"}

\* get_backend_by_driver(driver, spec, paths).prepare()
backend_prepare(driver, w, vm_name, env) ==
    CASE driver = "file" -> FileBackend_prepare(w, vm_name, env)
      [] driver = "lvm" -> LvmBackend_prepare(w, vm_name, env)
      [] driver = "lvmthin" -> LvmThinBackend_prepare(w, vm_name, env)

\* get_backend_by_driver(driver, spec, paths).delete()
backend_delete(driver, w, vm_name) ==
    CASE driver = "file" -> FileBackend_delete(w, vm_name)
      [] driver = "lvm" -> LvmBackend_delete(w, vm_name)
      [] driver = "lvmthin" -> LvmThinBackend_delete(w, vm_name)

\* APIHandlers._storage_teardown calls backend.teardown(); a back end without that
\* method raises AttributeError, which the caller swallows.
storage_teardown(w, vm_name) ==
    IF "teardown" \in FileBackendMethods THEN FileBackend_cleanup(w, vm_name) ELSE w

(* ------------------------------------------------------------------ *)
(* Networking back ends (linux-bridge-vlan, ovs-vlan)                   *)
(* ------------------------------------------------------------------ *)

\* net.uplink of the agent's configuration, a port of the bridge.
Uplink == <<"e","t","h","1">>

\* The bridge's default_pvid: the VID a port carries, as PVID and untagged, from the
\* moment it is attached.
DefaultPvid == 1

PvidUntagged == {"PVID", "EgressUntagged"}

\* bridge_vlan(ip, ifindex, "del", vid)
bridge_vlan_del(tbl, port, vid) == { e \in tbl : ~(e.port = port /\ e.vid = vid) }

\* bridge_vlan(ip, ifindex, "add", vid, flags): the entry replaces the port's entry for
\* that VID, and a port has one PVID.
bridge_vlan_add(tbl, port, vid, flags) ==
    { IF e.port = port /\ "PVID" \in flags THEN [e EXCEPT !.flags = @ \ {"PVID"}] ELSE e :
        e \in bridge_vlan_del(tbl, port, vid) }
    \cup {[port |-> port, vid |-> vid, flags |-> flags]}

\* port_vids(dev)
port_vids(tbl, dev) == { e.vid : e \in { x \in tbl : x.port = dev } }

\* prepare, lines 98-118: create the TAP if it is missing and attach it to the bridge.
EnsureTap(w, tap) ==
    IF tap \in w.taps THEN w
    ELSE [w EXCEPT !.taps = @ \cup {tap},
                   !.vlans = @ \cup {[port |-> tap, vid |-> DefaultPvid, flags |-> PvidUntagged]}]

\* A VLAN programming step that flips the uplink's membership of the VID instead of
\* ensuring it.
ProgramVlan_flip_uplink(w, tap, vid) ==
    IF vid = 0 THEN w
    ELSE [w EXCEPT !.vlans =
            IF vid \in port_vids(@, Uplink)
            THEN bridge_vlan_del(
                     bridge_vlan_add(bridge_vlan_del(@, tap, 1), tap, vid, PvidUntagged),
                     Uplink, vid)
            ELSE bridge_vlan_add(
                     bridge_vlan_add(bridge_vlan_del(@, tap, 1), tap, vid, PvidUntagged),
                     Uplink, vid, {})]

\* prepare, lines 126-130: VID 1 leaves the TAP, the NIC's VID becomes its PVID.
ProgramTap(w, tap, vid) ==
    IF vid = 0 THEN w
    ELSE [w EXCEPT !.vlans = bridge_vlan_add(bridge_vlan_del(@, tap, 1), tap, vid, PvidUntagged)]

\* prepare, lines 131-136: the VID is added, tagged, on the uplink.
ProgramUplink(w, vid) ==
    IF vid = 0 THEN w ELSE [w EXCEPT !.vlans = bridge_vlan_add(@, Uplink, vid, {})]

\* prepare, lines 123-136: a VID of 0 programs nothing.
ProgramVlan(w, tap, vid) == ProgramUplink(ProgramTap(w, tap, vid), vid)

\* setup_fdb_entry and setup_fdb_entry_bridge: the permanent entry set over netlink and
\* the master-static entry set with the bridge tool, each with a timer armed to delete it.
FdbEntry(tap, mac, vid, kind) ==
    [tap |-> tap, mac |-> mac, vid |-> vid, kind |-> kind, armed |-> TRUE]

\* "replace": the entry takes the place of one for the same port, address and VID.
fdb_replace(entries, e) ==
    { x \in entries : ~(x.tap = e.tap /\ x.mac = e.mac /\ x.vid = e.vid /\ x.kind = e.kind) }
    \cup {e}

\* prepare, lines 147-150: the forwarding database is primed for a NIC with a VID.
PrimeFdb(w, tap, mac, vid) ==
    IF vid = 0 THEN w
    ELSE [w EXCEPT !.fdb = fdb_replace(fdb_replace(@, FdbEntry(tap, mac, vid, "permanent")),
                                       FdbEntry(tap, mac, vid, "static"))]

RECURSIVE PrepareNics(_, _, _)
\* The per-NIC loop of LinuxBridgeVlanBackend.prepare: the TAP is created and attached
\* before the NIC's VLAN is looked up.
PrepareNics(w, nics, vm_name) ==
    IF nics = <<>> THEN [w |-> w, exc |-> "ok"]
    ELSE IF Head(nics).mac = "" THEN PrepareNics(w, Tail(nics), vm_name)
    ELSE IF vid_from_buri(Head(nics).broadcastUri) = NoVid
    THEN [w |-> EnsureTap(w, tap_name(Head(nics).deviceId, vm_name)),
          exc |-> "NetworkingError"]
    ELSE PrepareNics(PrimeFdb(ProgramVlan(EnsureTap(w, tap_name(Head(nics).deviceId,
                                                                vm_name)),
                                          tap_name(Head(nics).deviceId, vm_name),
                                          vid_from_buri(Head(nics).broadcastUri)),
                              tap_name(Head(nics).deviceId, vm_name), Head(nics).mac,
                              vid_from_buri(Head(nics).broadcastUri)),
                     Tail(nics), vm_name)

\* The TAP names teardown looks for: computed from the NICs, and read from the config.
TeardownTaps(w, spec) ==
    { tap_name(spec.nics[i].deviceId, spec.name) : i \in 1..Len(spec.nics) }
    \cup (IF ~w.config[spec.name].exists THEN {}
          ELSE { w.config[spec.name].nics[i].host_dev_name :
                   i \in 1..Len(w.config[spec.name].nics) })

\* ip.link("del"): the link goes, and with it its entries in the bridge's VLAN table and
\* forwarding database.  A timer armed for an entry of a deleted link finds nothing to
\* delete when it fires, so it is dropped with the entry.
LinkDel(w, names) ==
    [w EXCEPT !.taps = @ \ names, !.vlans = { e \in @ : e.port \notin names },
              !.fdb = { e \in @ : e.tap \notin names }]

\* cleanup_uplink_vlans, line 260: the VIDs on the uplink, the default 1 left out.
uplink_vids(w) == port_vids(w.vlans, Uplink) \ {1}

\* cleanup_uplink_vlans, lines 262-264: the VIDs other than 1 on the TAP ports of the bridge.
vids_in_use(w) == { x.vid : x \in { y \in w.vlans : y.port \in w.taps /\ y.vid # 1 } }

\* cleanup_uplink_vlans, lines 266-273: bridge vlan del on the uplink for every VID that
\* was read on the uplink and not read in use.
cleanup_uplink_del(w, on_uplink, in_use) ==
    [w EXCEPT !.vlans = { e \in @ : ~(e.port = Uplink /\ e.vid \in on_uplink \ in_use) }]

\* cleanup_uplink_vlans: drop from the uplink every VID other than 1 that no TAP port of
\* the bridge carries.
cleanup_uplink_vlans(w) == cleanup_uplink_del(w, uplink_vids(w), vids_in_use(w))

\* _add_uplink_trunks, lines 339-359, and _remove_unused_uplink_trunks, lines 369-389:
\* nothing without the uplink's port row; the trunks column is written only when the new
\* set differs from the set that was read.
set_uplink_trunks(o, current_trunks, new_trunks) ==
    IF ~(\E q \in o.ports : q.name = Uplink) THEN o
    ELSE IF new_trunks = current_trunks THEN o
    ELSE [o EXCEPT !.trunks = new_trunks]

\* OvsVlanBackend._ensure_port
ensure_port(o, port) ==
    IF \E q \in o.ports : q.name = port THEN o
    ELSE [o EXCEPT !.ports = @ \cup {[name |-> port, tag |-> NoVid]}]

\* OvsVlanBackend._set_port_tag
set_port_tag(o, port, vid) ==
    [o EXCEPT !.ports = { IF q.name = port THEN [q EXCEPT !.tag = vid] ELSE q : q \in @ }]

\* OvsVlanBackend._add_uplink_trunks
add_uplink_trunks(o, vids) == set_uplink_trunks(o, o.trunks, o.trunks \cup vids)

\* prepare, lines 113-134: create the TAP link if it is missing and add it to the switch.
OvsEnsureTap(w, tap) ==
    [w EXCEPT !.taps = @ \cup {tap}, !.ovs = ensure_port(@, tap)]

RECURSIVE OvsPrepareNics(_, _, _, _)
\* The per-NIC loop of OvsVlanBackend.prepare and the trunk update that follows it.
OvsPrepareNics(w, nics, vm_name, vids_needed) ==
    IF nics = <<>>
    THEN [w |-> IF vids_needed = {} THEN w
                ELSE [w EXCEPT !.ovs = add_uplink_trunks(@, vids_needed)],
          exc |-> "ok"]
    ELSE IF Head(nics).mac = "" THEN OvsPrepareNics(w, Tail(nics), vm_name, vids_needed)
    ELSE IF vid_from_buri(Head(nics).broadcastUri) = NoVid
    THEN [w |-> OvsEnsureTap(w, tap_name(Head(nics).deviceId, vm_name)),
          exc |-> "NetworkingError"]
    ELSE OvsPrepareNics(
             [OvsEnsureTap(w, tap_name(Head(nics).deviceId, vm_name)) EXCEPT
                 !.ovs = set_port_tag(@, tap_name(Head(nics).deviceId, vm_name),
                                      vid_from_buri(Head(nics).broadcastUri))],
             Tail(nics), vm_name,
             vids_needed \cup {vid_from_buri(Head(nics).broadcastUri)})

\* OvsVlanBackend._get_bridge_vids_in_use
get_bridge_vids_in_use(o) == { q.tag : q \in { x \in o.ports : x.tag # NoVid } }

\* OvsVlanBackend._remove_unused_uplink_trunks
remove_unused_uplink_trunks(o) ==
    set_uplink_trunks(o, o.trunks, o.trunks \cap get_bridge_vids_in_use(o))

\* get_backend_by_driver(driver, ...).prepare(): LinuxBridgeVlanBackend.prepare, or
\* OvsVlanBackend.prepare, which first makes the uplink a port of the switch.
net_prepare(w, spec, env) ==
    IF ~env.bridgeOk THEN [w |-> w, exc |-> "NetworkingError"]
    ELSE IF w.agent_defaults.driver = "ovs-vlan"
    THEN OvsPrepareNics([w EXCEPT !.ovs = ensure_port(@, Uplink)], spec.nics, spec.name, {})
    ELSE PrepareNics(w, spec.nics, spec.name)

\* teardown up to the uplink cleanup: the links of the VM's TAPs are deleted, and on the
\* switch their ports.
TeardownLinks(w, spec) ==
    IF w.agent_defaults.driver = "ovs-vlan"
    THEN [w EXCEPT !.taps = @ \ TeardownTaps(w, spec),
                   !.ovs.ports = { q \in @ : q.name \notin TeardownTaps(w, spec) }]
    ELSE LinkDel(w, TeardownTaps(w, spec))

\* A teardown that cleans the uplink and leaves the links and ports in place.
net_teardown_keep_links(w, spec) ==
    IF w.agent_defaults.driver = "ovs-vlan"
    THEN [w EXCEPT !.ovs = remove_unused_uplink_trunks(@)]
    ELSE cleanup_uplink_vlans(w)

\* get_backend_by_driver(driver, ...).teardown(): neither back end raises.  The Linux
\* one deletes the links and cleans the uplink; the OVS one deletes ports and links and
\* prunes the uplink's trunks.
net_teardown(w, spec) ==
    IF w.agent_defaults.driver = "ovs-vlan"
    THEN [TeardownLinks(w, spec) EXCEPT !.ovs = remove_unused_uplink_trunks(@)]
    ELSE cleanup_uplink_vlans(TeardownLinks(w, spec))

\* The TAP names a VM's NICs map to.
DeviceIds == {0}
TapsOf(vm_name) == { tap_name(d, vm_name) : d \in DeviceIds }

(* ------------------------------------------------------------------ *)
(* Config manager                                                       *)
(* ------------------------------------------------------------------ *)

RECURSIVE InsertNic(_, _)
InsertNic(nic, sorted) ==
    IF sorted = <<>> THEN <<nic>>
    ELSE IF nic.deviceId < Head(sorted).deviceId THEN <<nic>> \o sorted
    ELSE <<Head(sorted)>> \o InsertNic(nic, Tail(sorted))

RECURSIVE SortNics(_)
\* sorted(spec.vm.nics, key=lambda x: x.deviceId), stable
SortNics(nics) ==
    IF nics = <<>> THEN <<>>
    ELSE InsertNic(nics[Len(nics)], SortNics(SubSeq(nics, 1, Len(nics) - 1)))

\* The network-interfaces list of the rendered config.
ConfigNics(spec) ==
    LET s == SortNics(spec.nics)
    IN  [i \in 1..Len(s) |-> [iface_id |-> EthName(s[i].deviceId), guest_mac |-> s[i].mac,
                              host_dev_name |-> tap_name(s[i].deviceId, spec.name)]]

\* ConfigManager.write_config
write_config(w, spec, env) ==
    IF spec.kernel = "" THEN [w |-> w, exc |-> "ValueError"]
    ELSE IF ~env.kernelOk THEN [w |-> w, exc |-> "FileNotFoundError"]
    ELSE [w |-> [w EXCEPT !.config[spec.name] = [exists |-> TRUE, nics |-> ConfigNics(spec)]], exc |-> "ok"]

\* build_network_config_from_spec + save_network_config
save_network_config(w, spec) ==
    [w EXCEPT !.netsnap[spec.name] =
        [exists |-> TRUE,
         nics |-> [i \in 1..Len(spec.nics) |->
                     [device_id |-> spec.nics[i].deviceId, mac |-> spec.nics[i].mac,
                      vlan |-> spec.nics[i].vlan, broadcastUri |-> spec.nics[i].broadcastUri]]]]

\* ConfigManager.cleanup_network_config
cleanup_network_config(w, vm_name) == [w EXCEPT !.netsnap[vm_name] = NoFile]

\* api_create, line 76: payload_dir / f"create-spec-{vm_name}.json"
CreateSpecPath(w, key) ==
    [dir |-> w.agent_defaults.payload_dir,
     file |-> <<"c","r","e","a","t","e","-","s","p","e","c","-">> \o key \o <<".","j","s","o","n">>]

\* ConfigManager._payload_path: payload_dir / f"{vm_name}-payload.json"
payload_path(w, vm_name) ==
    [dir |-> w.agent_defaults.payload_dir,
     file |-> vm_name \o <<"-","p","a","y","l","o","a","d",".","j","s","o","n">>]

\* _load_payload, lines 441-444: log_dir / f"create-spec-{vm_name}.json"
LegacyPath(w, vm_name) ==
    [dir |-> w.agent_defaults.log_dir,
     file |-> <<"c","r","e","a","t","e","-","s","p","e","c","-">> \o vm_name \o <<".","j","s","o","n">>]

\* The payload files found at a path: the ones api_create wrote there.
FilesAt(w, path) ==
    { w.payload[k] : k \in { x \in DOMAIN w.payload : w.payload[x].exists /\ CreateSpecPath(w, x) = path } }

NoPayload == [exists |-> FALSE, body |-> Payload(NoName, <<>>, "")]

\* json.load of a payload file raises on a document that is not complete; _load_payload
\* answers None then.
json_load(f) == IF Partial(f) THEN NoPayload ELSE f

\* ConfigManager._load_payload
load_payload(w, vm_name) ==
    IF FilesAt(w, payload_path(w, vm_name)) # {}
    THEN json_load(CHOOSE f \in FilesAt(w, payload_path(w, vm_name)) : TRUE)
    ELSE IF FilesAt(w, LegacyPath(w, vm_name)) # {}
    THEN json_load(CHOOSE f \in FilesAt(w, LegacyPath(w, vm_name)) : TRUE)
    ELSE NoPayload

\* ConfigManager.cleanup_payload
cleanup_payload(w, vm_name) ==
    [w EXCEPT !.payload =
        [k \in DOMAIN @ |->
            IF @[k].exists /\ CreateSpecPath(w, k) \in {payload_path(w, vm_name), LegacyPath(w, vm_name)}
            THEN NoPayload ELSE @[k]]]

\* ConfigManager._nics_from_payload
nics_from_payload(f) ==
    [i \in 1..Len(f.body.nics) |->
        [device_id |-> f.body.nics[i].deviceId, mac |-> f.body.nics[i].mac,
         vlan |-> vid_from_buri(f.body.nics[i].broadcastUri),
         broadcastUri |-> f.body.nics[i].broadcastUri]]

\* ConfigManager.load_network_config: the snapshot, or one rebuilt from the payload, or
\* NoFile (Python's None).
load_network_config(w, vm_name) ==
    IF w.netsnap[vm_name].exists
    THEN (IF Partial(w.netsnap[vm_name]) THEN NoFile ELSE w.netsnap[vm_name])
    ELSE IF load_payload(w, vm_name).exists
    THEN [exists |-> TRUE, nics |-> nics_from_payload(load_payload(w, vm_name))]
    ELSE NoFile

\* payload_by_mac.get(mac) or payload_by_id.get(device_id) or {}: a later NIC of the
\* payload replaces an earlier one under the same key; every .get() on {} answers None.
BaseNic(entry, pn) ==
    IF { i \in 1..Len(pn) : pn[i].mac # "" /\ pn[i].mac = entry.mac } # {}
    THEN pn[CHOOSE i \in 1..Len(pn) :
                /\ pn[i].mac = entry.mac
                /\ \A j \in i+1..Len(pn) : pn[j].mac # entry.mac]
    ELSE IF { i \in 1..Len(pn) : pn[i].device_id = entry.device_id } # {}
    THEN pn[CHOOSE i \in 1..Len(pn) :
                /\ pn[i].device_id = entry.device_id
                /\ \A j \in i+1..Len(pn) : pn[j].device_id # entry.device_id]
    ELSE [device_id |-> 0, mac |-> "", vlan |-> NoVid, broadcastUri |-> NoUri]

\* vlan and broadcast_uri of a merged NIC: the entry's own, else the base's, else each
\* rebuilt from the other.
MergedUri(entry, base) ==
    IF entry.broadcastUri # NoUri THEN entry.broadcastUri
    ELSE IF base.broadcastUri # NoUri THEN base.broadcastUri
    ELSE IF entry.vlan # NoVid THEN VlanUri(entry.vlan)
    ELSE IF base.vlan # NoVid THEN VlanUri(base.vlan)
    ELSE NoUri

\* _build_spec_for_network_recovery, lines 335-369: one NIC of the rebuilt Spec.
MergeNic(entry, base) ==
    [deviceId |-> entry.device_id, mac |-> entry.mac,
     vlan |-> IF entry.vlan # NoVid THEN entry.vlan
              ELSE IF base.vlan # NoVid THEN base.vlan
              ELSE vid_from_buri(MergedUri(entry, base)),
     broadcastUri |-> MergedUri(entry, base)]

\* _build_spec_for_network_recovery, lines 326-328: the snapshot's NICs, or the payload's.
SavedNics(w, vm_name, net_cfg) ==
    IF net_cfg.nics # <<>> THEN net_cfg.nics ELSE nics_from_payload(load_payload(w, vm_name))

\* ConfigManager._build_spec_for_network_recovery without a fallback Spec; no NICs stands
\* for the None it returns.
build_spec_for_network_recovery(w, vm_name, net_cfg) ==
    IF ~HostDetails(CliHostKwargs) THEN [exc |-> "TypeError"]
    ELSE [exc |-> "ok",
          spec |-> [name |-> vm_name,
                    nics |-> SortNics(
                        [i \in 1..Len(SavedNics(w, vm_name, net_cfg)) |->
                            MergeNic(SavedNics(w, vm_name, net_cfg)[i],
                                     BaseNic(SavedNics(w, vm_name, net_cfg)[i],
                                             nics_from_payload(load_payload(w, vm_name))))]),
                    kernel |-> ""]]

\* apply_network_config_from_saved, lines 279-298: prepare, then persist the refreshed
\* snapshot.
ApplyPrepared(r, spec) ==
    IF r.exc # "ok" THEN [w |-> r.w, ok |-> FALSE]
    ELSE [w |-> save_network_config(r.w, spec), ok |-> TRUE]

\* ConfigManager.apply_network_config_from_saved
apply_network_config_from_saved(w, vm_name, net_cfg, env) ==
    IF build_spec_for_network_recovery(w, vm_name, net_cfg).exc # "ok" THEN [w |-> w, ok |-> FALSE]
    ELSE IF build_spec_for_network_recovery(w, vm_name, net_cfg).spec.nics = <<>>
    THEN [w |-> w, ok |-> FALSE]
    ELSE ApplyPrepared(net_prepare(w, build_spec_for_network_recovery(w, vm_name, net_cfg).spec, env),
                       build_spec_for_network_recovery(w, vm_name, net_cfg).spec)

(* ------------------------------------------------------------------ *)
(* VM manager                                                           *)
(* ------------------------------------------------------------------ *)

\* psutil.pid_exists
pid_exists(w, pid) == pid # 0 /\ \E m \in VmNames : w.proc[m] = pid

\* The process with this PID ends; the session that ran it closes with it.
KillPid(w, pid) ==
    [w EXCEPT !.proc = [m \in VmNames |-> IF w.proc[m] = pid THEN 0 ELSE w.proc[m]],
              !.session = [m \in VmNames |-> IF w.proc[m] = pid THEN FALSE ELSE w.session[m]]]

\* TmuxManager.kill_session: the session and the process in it end.
kill_session(w, vm_name) ==
    [w EXCEPT !.proc[vm_name] = 0, !.session[vm_name] = FALSE]

\* VMManager._make_api_request: the status code, 0 when nothing answers on the socket.
make_api_request(w, vm_name) ==
    IF w.socket[vm_name] /\ w.proc[vm_name] # 0 THEN 200 ELSE 0

\* start_vm, lines 36-50: unlink the stale socket, touch the log, kill a previous session.
StartClean(w, vm_name, env) ==
    IF env.tmuxOk /\ w.session[vm_name]
    THEN [kill_session(w, vm_name) EXCEPT !.socket[vm_name] = FALSE, !.logf[vm_name] = TRUE]
    ELSE [w EXCEPT !.socket[vm_name] = FALSE, !.logf[vm_name] = TRUE]

\* start_vm, lines 51-83: new session, PID discovery, pid file, grace window.
StartLaunch(w, vm_name, env) ==
    IF ~env.tmuxOk THEN [w |-> w, exc |-> "RuntimeError"]
    ELSE IF ~env.launched THEN [w |-> w, exc |-> "ok"]
    ELSE [w |-> [w EXCEPT !.session[vm_name] = TRUE,
                          !.proc[vm_name] = w.nextPid,
                          !.socket[vm_name] = TRUE,
                          !.nextPid = w.nextPid + 1,
                          !.pidfile[vm_name] =
                              IF env.pidFound THEN w.nextPid ELSE w.pidfile[vm_name]],
          exc |-> "ok"]

\* VMManager.start_vm
start_vm(w, vm_name, env) ==
    IF ~validate_name(vm_name) THEN [w |-> w, exc |-> "ValueError"]
    ELSE StartLaunch(StartClean(w, vm_name, env), vm_name, env)

\* stop_vm, lines 88-90; cad: the guest powers off on Ctrl-Alt-Del and the hypervisor exits.
StopCtrlAltDel(w, vm_name, cad) ==
    IF cad /\ make_api_request(w, vm_name) = 200 THEN KillPid(w, w.proc[vm_name]) ELSE w

\* stop_vm, lines 91-108: terminate the process the pid file names, if it is alive.
StopTerminate(w, vm_name) ==
    IF pid_exists(w, w.pidfile[vm_name]) THEN KillPid(w, w.pidfile[vm_name]) ELSE w

\* stop_vm, lines 110-114: unlink the pid and socket files.
StopUnlink(w, vm_name) == [w EXCEPT !.pidfile[vm_name] = 0, !.socket[vm_name] = FALSE]

\* VMManager.stop_vm
stop_vm(w, vm_name, cad) ==
    StopUnlink(StopTerminate(StopCtrlAltDel(w, vm_name, cad), vm_name), vm_name)

\* VMManager.status_vm; found: the discovery scan finds the live process.
status_vm(w, vm_name, found) ==
    IF pid_exists(w, w.pidfile[vm_name]) \/ (found /\ w.proc[vm_name] # 0)
       \/ w.session[vm_name]
    THEN "poweron"
    ELSE IF w.socket[vm_name] /\ make_api_request(w, vm_name) = 200 THEN "poweron"
    ELSE "poweroff"

\* delete_vm, lines 166-171: unlink the config and log files.
DeleteUnlink(w, vm_name) == [w EXCEPT !.config[vm_name] = NoFile, !.logf[vm_name] = FALSE]

\* get_storage_backend_by_driver(driver, spec, paths).cleanup(spec, paths): every back end
\* swallows the failure of its delete(); an unknown driver raises ValueError.
backend_cleanup(driver, w, vm_name) ==
    CASE driver = "file" -> Ran(FileBackend_cleanup(w, vm_name), "ok", <<>>)
      [] driver \in {"lvm", "lvmthin"} -> Ran(lvremove(w, VmLv(vm_name)).w, "ok", <<>>)
      [] OTHER -> Ran(w, "ValueError", <<>>)

\* delete_vm, lines 151-156: an unknown networking driver raises in the back-end lookup,
\* and delete_vm goes on.
DeleteTeardown(w, spec, net_driver) ==
    IF net_driver \in {"linux-bridge-vlan", "ovs-vlan"} THEN net_teardown(w, spec) ELSE w

\* The steps of delete_vm in the order the code calls them.
DeleteOrder == <<"stop_vm", "net_teardown", "storage_cleanup", "unlink">>

\* A delete that unlinks the config and the log whatever the storage cleanup did.
DeleteFinish_unlinks(r, vm_name) ==
    [w |-> DeleteUnlink(r.w, vm_name), exc |-> r.exc, steps |-> DeleteOrder]

\* delete_vm, lines 157-171: a storage cleanup that raised is re-raised, else the config
\* and log files are unlinked.
DeleteFinish(r, vm_name) ==
    IF r.exc # "ok" THEN [w |-> r.w, exc |-> r.exc, steps |-> SubSeq(DeleteOrder, 1, 3)]
    ELSE [w |-> DeleteUnlink(r.w, vm_name), exc |-> "ok", steps |-> DeleteOrder]

\* VMManager.delete_vm for a Spec with the given networking and storage drivers
delete_vm_by(w, spec, cad, net_driver, storage_driver) ==
    DeleteFinish(backend_cleanup(storage_driver,
                                 DeleteTeardown(stop_vm(w, spec.name, cad), spec, net_driver),
                                 spec.name),
                 spec.name)

\* VMManager.delete_vm as the handlers call it: the configured networking driver, file
\* storage.
delete_vm(w, spec, cad) == delete_vm_by(w, spec, cad, w.agent_defaults.driver, "file").w

\* VMManager.reboot_vm
reboot_vm(w, spec, env, cad) == start_vm(stop_vm(w, spec.name, cad), spec.name, env)

\* VMLifecycle._get_vm_status_by_name: any exception yields "unknown".
get_vm_status_by_name(w, vm_name, found) ==
    IF ApiMinimalSpec(vm_name).exc # "ok" THEN "unknown" ELSE status_vm(w, vm_name, found)

(* ------------------------------------------------------------------ *)
(* Create pipeline                                                      *)
(* ------------------------------------------------------------------ *)

\* File name key of the persisted request: the payload's name, or unknown-<time>.
PayloadKey(p) == IF p.name = NoName THEN UnknownTs ELSE p.name

\* The progress of a create: the host, the exception raised ("ok" when none), the steps
\* called so far, and the two rollback flags.
Ctx(w, exc, steps, sp, np) ==
    [w |-> w, exc |-> exc, steps |-> steps, storage_prepared |-> sp, network_prepared |-> np]

\* A step that returned r = [w, exc] was called after ctx.
Then(ctx, r, step) ==
    Ctx(r.w, r.exc, Append(ctx.steps, step),
        ctx.storage_prepared \/ (step = "storage_prepare" /\ r.exc = "ok"),
        ctx.network_prepared \/ (step = "net_prepare" /\ r.exc = "ok"))

StepToSpec(w, ts) == Ctx(w, ts.exc, <<"to_spec">>, FALSE, FALSE)

StepValidate(ctx, spec, invalidName) ==
    IF ctx.exc # "ok" THEN ctx
    ELSE Then(ctx, [w |-> ctx.w,
                    exc |-> IF validate_name(spec.name) THEN "ok" ELSE invalidName],
              "validate_name")

StepStorage(ctx, spec, env) ==
    IF ctx.exc # "ok" THEN ctx
    ELSE Then(ctx, FileBackend_prepare(ctx.w, spec.name, env), "storage_prepare")

StepNet(ctx, spec, env) ==
    IF ctx.exc # "ok" THEN ctx
    ELSE Then(ctx, net_prepare(ctx.w, spec, env), "net_prepare")

StepSaveNet(ctx, spec) ==
    IF ctx.exc # "ok" THEN ctx
    ELSE Then(ctx, [w |-> save_network_config(ctx.w, spec), exc |-> "ok"],
              "save_network_config")

StepWriteConfig(ctx, spec, env) ==
    IF ctx.exc # "ok" THEN ctx
    ELSE Then(ctx, write_config(ctx.w, spec, env), "write_config")

\* A start that is called whatever the earlier steps did.
StepStart_always(ctx, spec, env) ==
    Then([ctx EXCEPT !.exc = "ok"], start_vm(ctx.w, spec.name, env), "start_vm")

StepStart(ctx, spec, env) ==
    IF ctx.exc # "ok" THEN ctx
    ELSE Then(ctx, start_vm(ctx.w, spec.name, env), "start_vm")

\* The Spec a create works on; a placeholder when _to_spec raised.
SpecOf(ts, p) ==
    IF ts.exc = "ok" THEN ts.spec ELSE [name |-> SpecName(p), nics |-> <<>>, kernel |-> ""]

\* The body of the try block shared by api_create and CLICommands.create.  ts is the
\* outcome of _to_spec, invalidName the exception an invalid name raises.
CreatePipeline(w, ts, spec, env, invalidName) ==
    StepStart(
      StepWriteConfig(
        StepSaveNet(
          StepNet(
            StepStorage(
              StepValidate(StepToSpec(w, ts), spec, invalidName),
              spec, env),
            spec, env),
          spec),
        spec, env),
      spec, env)

\* A storage rollback whose failure ends the rollback and replaces the error.
RollbackStorage_raises(ctx, spec) ==
    IF ctx.storage_prepared
    THEN Ctx(ctx.w, "AttributeError", Append(ctx.steps, "storage_teardown"), TRUE, FALSE)
    ELSE ctx

\* api_create, lines 126-130.
RollbackStorage(ctx, spec) ==
    IF ctx.storage_prepared
    THEN Ctx(storage_teardown(ctx.w, spec.name), ctx.exc,
             Append(ctx.steps, "storage_teardown"), TRUE, ctx.network_prepared)
    ELSE ctx

\* api_create, lines 131-135.
RollbackNet(ctx, spec) ==
    IF ctx.network_prepared
    THEN Ctx(net_teardown(ctx.w, spec), ctx.exc, Append(ctx.steps, "net_teardown"),
             ctx.storage_prepared, TRUE)
    ELSE ctx

Reply(w, code, exc, steps) ==
    [w |-> w, code |-> code, status |-> IF exc = "ok" THEN "success" ELSE "error",
     exc |-> exc, steps |-> steps]

\* api_create, lines 113-117 and 136-138: the reply.
CreateReply(ctx) ==
    Reply(ctx.w,
          IF ctx.exc = "ok" THEN 201
          ELSE IF ctx.exc \in {"ValueError", "FileNotFoundError"} THEN 400 ELSE 500,
          ctx.exc, <<"payload">> \o ctx.steps)

\* api_create, lines 84-138: the try block, and the except block when a step raised.
CreateTry(w, ts, spec, env) ==
    IF CreatePipeline(w, ts, spec, env, "HTTPException400").exc = "ok"
    THEN CreateReply(CreatePipeline(w, ts, spec, env, "HTTPException400"))
    ELSE CreateReply(RollbackNet(RollbackStorage(
             CreatePipeline(w, ts, spec, env, "HTTPException400"), spec), spec))

\* api_create, lines 62-78: the raw request is written before anything is parsed.
WritePayload(w, p) == [w EXCEPT !.payload[PayloadKey(p)] = [exists |-> TRUE, body |-> p]]

\* An api_create whose open() creates the directories its path runs through.
ApiCreate_mkdirs(w, p, env) ==
    CreateTry(WritePayload(w, p), ApiToSpec(p), SpecOf(ApiToSpec(p), p), env)

\* APIHandlers.api_create: open("w") raises FileNotFoundError when a directory on the
\* path is missing, and only payload_dir itself is created (line 75).
ApiCreate(w, p, env) ==
    IF HasSlash(PayloadKey(p)) THEN Reply(w, 500, "FileNotFoundError", <<"payload">>)
    ELSE CreateTry(WritePayload(w, p), ApiToSpec(p), SpecOf(ApiToSpec(p), p), env)

CliReply(ctx) == Reply(ctx.w, 0, ctx.exc, ctx.steps)

\* CLICommands.create: no rollback.
CliCreate(w, p, env) ==
    CliReply(CreatePipeline(w, CliToSpec(p), SpecOf(CliToSpec(p), p), env, "ValueError"))

(* ------------------------------------------------------------------ *)
(* By-name HTTP handlers                                                *)
(* ------------------------------------------------------------------ *)

\* The reply of a by-name handler whose work returned r = [w, exc].
ByNameReply(r, steps) == Reply(r.w, IF r.exc = "ok" THEN 200 ELSE 500, r.exc, steps)

Done(w) == [w |-> w, exc |-> "ok"]

\* APIHandlers.v1_vm_stop_by_name
ApiStop(w, vm_name, cad) ==
    IF (IF read_cfg_json_by_name(w, vm_name).exists
        THEN ApiCfgToSpec(read_cfg_json_by_name(w, vm_name), vm_name)
        ELSE ApiMinimalSpec(vm_name)).exc # "ok"
    THEN Reply(w, 500, "TypeError", <<"read_cfg", "to_spec">>)
    ELSE ByNameReply(Done(stop_vm(w, vm_name, cad)), <<"read_cfg", "to_spec", "stop_vm">>)

\* The first lines of the delete, reboot and start handlers: 404 without a config, 500
\* when the config cannot be turned into a Spec; "ok" otherwise.
ByNameGuard(cfg, vm_name) ==
    IF ~cfg.exists THEN "HTTPException404" ELSE ApiCfgToSpec(cfg, vm_name).exc

GuardReply(w, guard) ==
    IF guard = "HTTPException404" THEN Reply(w, 404, guard, <<"read_cfg">>)
    ELSE Reply(w, 500, guard, <<"read_cfg", "to_spec">>)

\* The Spec delete, reboot and start work on.
ByNameSpec(w, vm_name) == ApiCfgToSpec(read_cfg_json_by_name(w, vm_name), vm_name).spec

\* APIHandlers.v1_vm_delete_by_name
ApiDelete(w, vm_name, cad) ==
    IF ByNameGuard(read_cfg_json_by_name(w, vm_name), vm_name) # "ok"
    THEN GuardReply(w, ByNameGuard(read_cfg_json_by_name(w, vm_name), vm_name))
    ELSE ByNameReply(Done(cleanup_network_config(
                            delete_vm(w, ByNameSpec(w, vm_name), cad), vm_name)),
                     <<"read_cfg", "to_spec", "delete_vm", "cleanup_network_config">>)

\* APIHandlers.v1_vm_reboot_by_name
ApiReboot(w, vm_name, env, cad) ==
    IF ByNameGuard(read_cfg_json_by_name(w, vm_name), vm_name) # "ok"
    THEN GuardReply(w, ByNameGuard(read_cfg_json_by_name(w, vm_name), vm_name))
    ELSE ByNameReply(reboot_vm(w, ByNameSpec(w, vm_name), env, cad),
                     <<"read_cfg", "to_spec", "stop_vm", "start_vm">>)

\* APIHandlers.v1_vm_start_by_name
ApiStart(w, vm_name, env) ==
    IF ByNameGuard(read_cfg_json_by_name(w, vm_name), vm_name) # "ok"
    THEN GuardReply(w, ByNameGuard(read_cfg_json_by_name(w, vm_name), vm_name))
    ELSE ByNameReply(start_vm(w, vm_name, env), <<"read_cfg", "to_spec", "start_vm">>)

(* ------------------------------------------------------------------ *)
(* CLI commands                                                         *)
(* ------------------------------------------------------------------ *)

CliFail(w, exc, steps) == Reply(w, 0, exc, steps)

CliDone(r, steps) == Reply(r.w, 0, r.exc, steps)

\* CLICommands.stop
CliStop(w, p, cad) ==
    IF CliToSpec(p).exc # "ok" THEN CliFail(w, CliToSpec(p).exc, <<"to_spec">>)
    ELSE CliDone(Done(stop_vm(w, CliToSpec(p).spec.name, cad)), <<"to_spec", "stop_vm">>)

\* CLICommands.delete
CliDelete(w, p, cad) ==
    IF CliToSpec(p).exc # "ok" THEN CliFail(w, CliToSpec(p).exc, <<"to_spec">>)
    ELSE CliDone(Done(cleanup_payload(
                          cleanup_network_config(delete_vm(w, CliToSpec(p).spec, cad),
                                                 CliToSpec(p).spec.name),
                          CliToSpec(p).spec.name)),
                 <<"to_spec", "delete_vm", "cleanup_network_config", "cleanup_payload">>)

\* CLICommands.start, lines 92-95: re-apply the network, then start.
CliStartRun(np, spec, env) ==
    IF np.exc # "ok" THEN CliDone(np, <<"to_spec", "config_exists", "net_prepare">>)
    ELSE CliDone(start_vm(np.w, spec.name, env),
                 <<"to_spec", "config_exists", "net_prepare", "start_vm">>)

\* CLICommands.start
CliStart(w, p, env) ==
    IF CliToSpec(p).exc # "ok" THEN CliFail(w, CliToSpec(p).exc, <<"to_spec">>)
    ELSE IF ~w.config[CliToSpec(p).spec.name].exists
    THEN CliFail(w, "Exit", <<"to_spec", "config_exists">>)
    ELSE CliStartRun(net_prepare(w, CliToSpec(p).spec, env), CliToSpec(p).spec, env)

\* CLICommands.reboot
CliReboot(w, p, env, cad) ==
    IF CliToSpec(p).exc # "ok" THEN CliFail(w, CliToSpec(p).exc, <<"to_spec">>)
    ELSE CliDone(reboot_vm(w, CliToSpec(p).spec, env, cad),
                 <<"to_spec", "stop_vm", "start_vm">>)

\* CLICommands.vm_status: the power state printed, "" when the command failed.
CliStatus(w, p, found) ==
    IF CliToSpec(p).exc # "ok" THEN ""
    ELSE status_vm(w, CliToSpec(p).spec.name, found)

(* ------------------------------------------------------------------ *)
(* State machine                                                        *)
(* ------------------------------------------------------------------ *)


\* VMLifecycle._cfg_to_spec
LifecycleCfgToSpec(cfg, vm_name) ==
    IF ~HostDetails(ApiHostKwargs) THEN [exc |-> "TypeError"]
    ELSE [exc |-> "ok", spec |-> [name |-> vm_name, nics |-> CfgNics(cfg), kernel |-> "set"]]

\* recover_vm_networking, lines 189-218: a is the outcome of the saved configuration;
\* when it failed, rebuild the Spec from the stored config file.
RecoverFromCfg(a, vm_name, env) ==
    IF a.ok THEN a
    ELSE IF ~read_cfg_json_by_name(a.w, vm_name).exists THEN [w |-> a.w, ok |-> FALSE]
    ELSE IF LifecycleCfgToSpec(read_cfg_json_by_name(a.w, vm_name), vm_name).exc # "ok"
    THEN [w |-> a.w, ok |-> FALSE]
    ELSE [w |-> net_prepare(a.w, LifecycleCfgToSpec(read_cfg_json_by_name(a.w, vm_name), vm_name).spec, env).w,
          ok |-> net_prepare(a.w, LifecycleCfgToSpec(read_cfg_json_by_name(a.w, vm_name), vm_name).spec, env).exc = "ok"]

\* VMLifecycle.recover_vm_networking without a fallback Spec
recover_vm_networking(w, vm_name, env) ==
    RecoverFromCfg(
        IF ~load_network_config(w, vm_name).exists THEN [w |-> w, ok |-> FALSE]
        ELSE apply_network_config_from_saved(w, vm_name, load_network_config(w, vm_name), env),
        vm_name, env)

RecoverReply(r) ==
    IF r.ok THEN Reply(r.w, 200, "ok", <<"recover_vm_networking">>)
    ELSE Reply(r.w, 404, "HTTPException404", <<"recover_vm_networking">>)

\* APIHandlers.v1_vm_recover_by_name; a request that carries a spec goes through _to_spec.
ApiRecover(w, vm_name, body, env) ==
    IF body /\ ~HostDetails(ApiHostKwargs) THEN Reply(w, 500, "TypeError", <<"to_spec">>)
    ELSE RecoverReply(recover_vm_networking(w, vm_name, env))

\* CLICommands.net_prepare_cmd
CliNetPrepare(w, p, env) ==
    IF CliToSpec(p).exc # "ok" THEN CliFail(w, CliToSpec(p).exc, <<"to_spec">>)
    ELSE CliDone(net_prepare(w, CliToSpec(p).spec, env), <<"to_spec", "net_prepare">>)

\* CLICommands.net_teardown_cmd
CliNetTeardown(w, p) ==
    IF CliToSpec(p).exc # "ok" THEN CliFail(w, CliToSpec(p).exc, <<"to_spec">>)
    ELSE CliDone(Done(cleanup_network_config(net_teardown(w, CliToSpec(p).spec),
                                             CliToSpec(p).spec.name)),
                 <<"to_spec", "net_teardown", "cleanup_network_config">>)

\* The agent's configuration: the networking driver, and the directories payloads and
\* logs go to.
DefaultConfig == [driver |-> "linux-bridge-vlan", payload_dir |-> "/var/lib/firecracker/payload",
                  log_dir |-> "/var/log/firecracker"]

\* The uplink is a port of the bridge and carries the default VID.
HostAtStart(defaults, states) ==
    /\ payload = [k \in PayloadKeys |-> NoPayload]
    /\ config = [n \in VmNames |-> NoFile]
    /\ pidfile = [n \in VmNames |-> 0]
    /\ socket = [n \in VmNames |-> FALSE]
    /\ logf = [n \in VmNames |-> FALSE]
    /\ volume = [n \in VmNames |-> Absent]
    /\ lvs = [lv \in LvNames |-> Absent]
    /\ netsnap = [n \in VmNames |-> NoFile]
    /\ vm_states = states
    /\ writing = NoWrite
    /\ proc = [n \in VmNames |-> 0]
    /\ session = [n \in VmNames |-> FALSE]
    /\ taps = {}
    /\ vlans = {[port |-> Uplink, vid |-> DefaultPvid, flags |-> PvidUntagged]}
    /\ ovs = [ports |-> {}, trunks |-> {}]
    /\ fdb = {}
    /\ agent_defaults = defaults
    /\ nextPid = 1
    /\ resp = [op |-> "init", name |-> NoName, code |-> 0, status |-> "", power |-> "",
               exc |-> "ok", req |-> Payload(NoName, <<>>, ""), envOk |-> FALSE]
    /\ trace = <<>>
    /\ known = [n \in VmNames |-> FALSE]
    /\ threads = NoThreads
    /\ vnc = NoConsole

\* A host on which the agent has not run: no vm-states.json.
CleanHost(defaults) == HostAtStart(defaults, NoStates)

Init == CleanHost(DefaultConfig)

ByName(name) == Payload(name, <<>>, "")

\* The history after a reply r: a create that succeeded makes the VM known, a delete that
\* succeeded makes it unknown again.
History(r, name, effect) ==
    IF r.exc = "ok" /\ name \in VmNames /\ effect # "keep"
    THEN [known EXCEPT ![name] = (effect = "create")]
    ELSE known

\* A handler returns: the host is as it left it, the file it was writing is closed, and
\* its reply is recorded.  No more than
\* MaxPid processes are spawned in a behaviour.
Return(r, op, name, power, req, envOk, effect) ==
    /\ r.w.nextPid <= MaxPid + 1
    /\ payload' = r.w.payload
    /\ config' = r.w.config
    /\ pidfile' = r.w.pidfile
    /\ socket' = r.w.socket
    /\ logf' = r.w.logf
    /\ volume' = r.w.volume
    /\ lvs' = r.w.lvs
    /\ netsnap' = r.w.netsnap
    /\ vm_states' = r.w.vm_states
    /\ writing' = NoWrite
    /\ proc' = r.w.proc
    /\ session' = r.w.session
    /\ taps' = r.w.taps
    /\ vlans' = r.w.vlans
    /\ ovs' = r.w.ovs
    /\ fdb' = r.w.fdb
    /\ agent_defaults' = r.w.agent_defaults
    /\ nextPid' = r.w.nextPid
    /\ resp' = [op |-> op, name |-> name, code |-> r.code, status |-> r.status,
                power |-> power, exc |-> r.exc, req |-> req, envOk |-> envOk]
    /\ trace' = r.steps
    /\ known' = History(r, name, effect)
    /\ threads' = threads
    /\ vnc' = vnc

\* POST /v1/vms
api_create ==
    \E p \in ApiPayloads, env \in Envs :
        Return(ApiCreate(World, p, env), "api_create", SpecName(p), "", p,
               AllSucceed(env), "create")

\* POST /v1/vms/{vm_name}/stop
v1_vm_stop_by_name ==
    \E n \in Targets, cad \in BOOLEAN :
        Return(ApiStop(World, n, cad), "api_stop", n, "", ByName(n), FALSE, "keep")

\* DELETE /v1/vms/{vm_name}
v1_vm_delete_by_name ==
    \E n \in Targets, cad \in BOOLEAN :
        Return(ApiDelete(World, n, cad), "api_delete", n, "", ByName(n), FALSE, "delete")

\* POST /v1/vms/{vm_name}/reboot
v1_vm_reboot_by_name ==
    \E n \in Targets, env \in StartEnvs, cad \in BOOLEAN :
        Return(ApiReboot(World, n, env, cad), "api_reboot", n, "", ByName(n), FALSE, "keep")

\* POST /v1/vms/{vm_name}/start
v1_vm_start_by_name ==
    \E n \in Targets, env \in StartEnvs :
        Return(ApiStart(World, n, env), "api_start", n, "", ByName(n), FALSE, "keep")

\* GET /v1/vms/{vm_name}/status
v1_vm_status_by_name ==
    \E n \in Targets, found \in BOOLEAN :
        Return(Reply(World, 200, "ok", <<"status">>), "api_status", n,
               get_vm_status_by_name(World, n, found), ByName(n), FALSE, "keep")

\* fc-agent create --spec FILE
cli_create ==
    \E p \in CliPayloads, env \in Envs :
        Return(CliCreate(World, p, env), "cli_create", SpecName(p), "", p,
               AllSucceed(env), "create")

\* fc-agent stop --spec FILE
cli_stop ==
    \E p \in CliPayloads, cad \in BOOLEAN :
        Return(CliStop(World, p, cad), "cli_stop", SpecName(p), "", p, FALSE, "keep")

\* fc-agent delete --spec FILE
cli_delete ==
    \E p \in CliPayloads, cad \in BOOLEAN :
        Return(CliDelete(World, p, cad), "cli_delete", SpecName(p), "", p, FALSE, "delete")

\* fc-agent start --spec FILE
cli_start ==
    \E p \in CliPayloads, env \in CliStartEnvs :
        Return(CliStart(World, p, env), "cli_start", SpecName(p), "", p, FALSE, "keep")

\* fc-agent reboot --spec FILE
cli_reboot ==
    \E p \in CliPayloads, env \in StartEnvs, cad \in BOOLEAN :
        Return(CliReboot(World, p, env, cad), "cli_reboot", SpecName(p), "", p, FALSE, "keep")

\* fc-agent status --spec FILE
cli_vm_status ==
    \E p \in CliPayloads, found \in BOOLEAN :
        Return(CliFail(World, CliToSpec(p).exc, <<"to_spec", "status_vm">>), "cli_vm_status",
               SpecName(p), CliStatus(World, p, found), p, FALSE, "keep")

\* The hypervisor process of a VM exits on its own (guest power-off, crash); its session
\* closes with it, the socket and pid files stay behind.
ProcExit ==
    \E n \in VmNames :
        /\ proc[n] # 0
        /\ Return(Reply(KillPid(World, proc[n]), 0, "ok", <<>>), "proc_exit", n, "",
                  ByName(n), FALSE, "keep")

Next ==
    \/ api_create
    \/ v1_vm_stop_by_name
    \/ v1_vm_delete_by_name
    \/ v1_vm_reboot_by_name
    \/ v1_vm_start_by_name
    \/ v1_vm_status_by_name
    \/ cli_create
    \/ cli_stop
    \/ cli_delete
    \/ cli_start
    \/ cli_reboot
    \/ cli_vm_status
    \/ ProcExit

Spec == Init /\ [][Next]_vars

(* ------------------------------------------------------------------ *)
(* Networking and recovery                                              *)
(* ------------------------------------------------------------------ *)

\* The agent starts on a clean host with either driver configured, and with the payload
\* directory kept apart from the log directory or set to it.
InitNet ==
    \E d \in {"linux-bridge-vlan", "ovs-vlan"},
       pd \in {DefaultConfig.payload_dir, DefaultConfig.log_dir} :
        CleanHost([DefaultConfig EXCEPT !.driver = d, !.payload_dir = pd])

\* POST /v1/vms for a VM with VLAN-backed NICs
api_create_vlan ==
    \E p \in NetPayloads :
        Return(ApiCreate(World, p, EnvOk), "api_create", SpecName(p), "", p, TRUE, "create")

\* POST /v1/vms/{vm_name}/recover
v1_vm_recover_by_name ==
    \E n \in {VmA, VmB}, body \in BOOLEAN, env \in {EnvOk, [EnvOk EXCEPT !.bridgeOk = FALSE]} :
        Return(ApiRecover(World, n, body, env), "api_recover", n, "", ByName(n),
               env.bridgeOk, "keep")

\* fc-agent net-teardown --spec FILE
net_teardown_cmd ==
    \E p \in {Payload(VmA, <<NicVlan>>, "vmlinux.bin"), Payload(VmB, <<>>, "vmlinux.bin")} :
        Return(CliNetTeardown(World, p), "cli_net_teardown", SpecName(p), "", p, FALSE, "keep")

\* A TAP link is removed outside the agent (ip link del, a host restart); its entries in
\* the bridge's VLAN table go with it, its port record in the switch database stays.
TapRemoved ==
    \E t \in taps :
        Return(Reply(LinkDel(World, {t}), 0, "ok", <<>>), "tap_removed", NoName, "",
               ByName(NoName), FALSE, "keep")

NextNet ==
    \/ api_create_vlan
    \/ v1_vm_recover_by_name
    \/ net_teardown_cmd
    \/ TapRemoved

SpecNet == InitNet /\ [][NextNet]_vars

\* fc-agent net-prepare --spec FILE
net_prepare_cmd ==
    \E p \in TapPayloads, env \in {EnvOk, [EnvOk EXCEPT !.bridgeOk = FALSE]} :
        Return(CliNetPrepare(World, p, env), "cli_net_prepare", SpecName(p), "", p,
               env.bridgeOk, "keep")

NextTap ==
    \/ net_prepare_cmd
    \/ TapRemoved

SpecTap == Init /\ [][NextTap]_vars

(* ------------------------------------------------------------------ *)
(* Properties                                                           *)
(* ------------------------------------------------------------------ *)

\* The artifacts and host resources of the agent.
host == <<payload, config, pidfile, socket, logf, volume, lvs, netsnap, vm_states, proc, session, taps,
          vlans, ovs>>

\* The last request was a create over HTTP.
IsApiCreate == resp.op = "api_create"

\* A create request the pipeline has nothing to object to: a valid name, and a VLAN on
\* every NIC.
ValidCreate(p) ==
    /\ validate_name(SpecName(p))
    /\ \A i \in 1..Len(p.nics) : vid_from_buri(p.nics[i].broadcastUri) # NoVid

\* The step at which the last handler stopped.
LastStep == IF trace = <<>> THEN "" ELSE trace[Len(trace)]

\* C1: a valid create request on a host where every step succeeds is answered with
\* status success and the VM name, and leaves the VM running, its config and pid file
\* on disk, its network snapshot persisted and one TAP per NIC on the bridge.
C1_CreateSucceeds ==
    (IsApiCreate /\ ValidCreate(resp.req) /\ resp.envOk) =>
        /\ resp.status = "success"
        /\ resp.name = resp.req.name
        /\ proc[resp.name] # 0
        /\ config[resp.name].exists
        /\ pidfile[resp.name] # 0
        /\ netsnap[resp.name].exists
        /\ { tap_name(resp.req.nics[i].deviceId, resp.name) : i \in 1..Len(resp.req.nics) }
              \subseteq taps

\* C2: when a create has failed at network preparation, after storage was prepared, the
\* VM's volume is gone and no TAP of that VM exists.
C2_NetFailureRolledBack ==
    (resp.op \in {"api_create", "cli_create"} /\ resp.exc # "ok" /\ LastStep = "net_prepare") =>
        /\ volume[resp.name] = Absent
        /\ taps \cap TapsOf(resp.name) = {}

\* C3: a create whose name does not match [A-Za-z0-9-]+ is rejected with HTTP 400 for
\* the invalid name, and no file is created under any configured root.
C3_InvalidNameRejected ==
    (IsApiCreate /\ ~validate_name(resp.req.name)) =>
        /\ resp.code = 400
        /\ resp.exc = "HTTPException400"
        /\ \A k \in PayloadKeys : payload[k].exists => payload[k].body.name # resp.req.name

\* C4: every create request has its raw payload in create-spec-<vm>.json, written before
\* the request is parsed, and kept when the request is rejected or fails.
C4_PayloadPersisted ==
    IsApiCreate =>
        /\ trace[1] = "payload"
        /\ \E k \in PayloadKeys : payload[k].exists /\ payload[k].body = resp.req

\* C5: stop is idempotent: it answers success also for a VM that is stopped or was never
\* created, and when it has returned the pid and socket files are absent.
C5_StopIdempotent ==
    resp.op = "api_stop" =>
        /\ resp.status = "success"
        /\ pidfile[resp.name] = 0
        /\ ~socket[resp.name]

\* C6: once a created VM has been stopped, whatever PID discovery found at create, status
\* reports poweroff, the pid and socket files are absent and the config is present.
C6_StoppedIsPoweroff ==
    (resp.op \in {"api_stop", "cli_stop"} /\ resp.exc = "ok" /\ known[resp.name]) =>
        /\ \A found \in BOOLEAN : status_vm(World, resp.name, found) = "poweroff"
        /\ pidfile[resp.name] = 0
        /\ ~socket[resp.name]
        /\ config[resp.name].exists

\* C7: once a delete has succeeded, the VM's config, pid file, socket, volume and network
\* snapshot are absent and status reports poweroff.
C7_DeletedIsGone ==
    (resp.op \in {"api_delete", "cli_delete"} /\ resp.exc = "ok") =>
        /\ ~config[resp.name].exists
        /\ pidfile[resp.name] = 0
        /\ ~socket[resp.name]
        /\ volume[resp.name] = Absent
        /\ ~netsnap[resp.name].exists
        /\ \A found \in BOOLEAN : status_vm(World, resp.name, found) = "poweroff"

\* C8: start, reboot and delete of a VM whose config file does not exist answer 404 with
\* an error, and change no artifact on disk and no host resource.
C8_MissingVmIs404 ==
    [][(resp'.op \in {"api_start", "api_reboot", "api_delete"}
        /\ ~config[resp'.name].exists)
       => (resp'.code = 404 /\ resp'.status = "error" /\ UNCHANGED host)]_vars

\* C8, its case: a by-name request was answered 404 while the VM's hypervisor, left behind
\* by an earlier delete, was still running.
C8_Witness ==
    /\ resp.op \in {"api_start", "api_reboot", "api_delete"}
    /\ resp.code = 404
    /\ ~config[resp.name].exists
    /\ proc[resp.name] # 0

\* C9: status never fails and is two-valued: the power state it reports is poweron or
\* poweroff, never a third value.
C9_StatusTwoValued ==
    resp.op = "api_status" => (resp.status = "success" /\ resp.power \in {"poweron", "poweroff"})

\* C10: in every state reached by create, start, stop, reboot and delete, failing calls
\* included, a VM's config file exists exactly when the VM is known.
C10_ConfigIffKnown ==
    \A n \in VmNames : config[n].exists <=> known[n]

\* The operations that launch a hypervisor.
Launchers == {"api_create", "cli_create", "api_start", "cli_start", "api_reboot", "cli_reboot"}

\* C11: when a create, start or reboot has launched a hypervisor for a VM and returns with
\* the VM's pid file present, the file holds the PID of that launch, never the PID
\* recorded for an earlier one.
C11_PidFileIsLatestLaunch ==
    [][(resp'.op \in Launchers /\ nextPid' # nextPid /\ pidfile'[resp'.name] # 0)
       => pidfile'[resp'.name] = nextPid]_vars

\* C12: in every state, a VM whose socket file is absent is powered off: status reports
\* poweroff for it.
C12_NoSocketIsPoweroff ==
    \A n \in VmNames :
        ~socket[n] => \A found \in BOOLEAN : status_vm(World, n, found) = "poweroff"

\* The Spec a recovery of the VM would rebuild from what is persisted now.
RecoverySpec(vm_name) ==
    build_spec_for_network_recovery(World, vm_name, load_network_config(World, vm_name)).spec

\* What networking leaves on the host: the TAP links, the bridge's VLAN table, the switch.
NetObservable(w) == <<w.taps, w.vlans, w.ovs>>

\* The last request was a recover that succeeded.
Recovered == resp.op = "api_recover" /\ resp.code = 200

\* C13: networking prepare is idempotent in both back ends: on a host where prepare has
\* just succeeded for a VM's Spec, preparing the same Spec again succeeds and leaves the
\* same TAPs, the same VLAN ids on every TAP and on the uplink, and the same switch ports.
C13_PrepareIdempotent ==
    Recovered =>
        /\ net_prepare(World, RecoverySpec(resp.name), EnvOk).exc = "ok"
        /\ NetObservable(net_prepare(World, RecoverySpec(resp.name), EnvOk).w) = NetObservable(World)

\* C13 witness: a recover prepared two NICs on the Linux bridge, and the uplink carries
\* their VLANs.
C13_Witness ==
    /\ Recovered
    /\ agent_defaults.driver = "linux-bridge-vlan"
    /\ Len(RecoverySpec(resp.name).nics) = 2
    /\ {42, 7} \subseteq port_vids(vlans, Uplink)


\* The last request was a network teardown from the CLI that went through.
TornDown == resp.op = "cli_net_teardown" /\ resp.exc = "ok"

\* C14: networking teardown is idempotent: after teardown of a VM's Spec none of the
\* Spec's TAPs is on the host, and tearing the same Spec down again changes no TAP, no
\* VLAN id and no switch port.
C14_TeardownIdempotent ==
    TornDown =>
        /\ taps \cap TeardownTaps(World, CliToSpec(resp.req).spec) = {}
        /\ NetObservable(net_teardown(World, CliToSpec(resp.req).spec)) = NetObservable(World)

\* C14 witness: on a switch where a prepare had made the uplink a port and added the VM's
\* TAP, a teardown of the VM's NIC left the uplink alone, without TAP and without trunk.
C14_Witness ==
    /\ TornDown
    /\ resp.req.nics # <<>>
    /\ agent_defaults.driver = "ovs-vlan"
    /\ ovs = [ports |-> {[name |-> Uplink, tag |-> NoVid]}, trunks |-> {}]
    /\ taps = {}

\* The entries of the bridge's VLAN table for a port and a VID.
VlanEntries(port, vid) == { e \in vlans : e.port = port /\ e.vid = vid }

\* C15: after a linux-bridge-vlan prepare that succeeded, the TAP of every NIC it
\* programmed does not carry VID 1, and carries the NIC's VID exactly once, with the flags
\* PVID and EgressUntagged.
C15_TapCarriesOnlyNicVid ==
    (Recovered /\ agent_defaults.driver = "linux-bridge-vlan") =>
        \A i \in 1..Len(RecoverySpec(resp.name).nics) :
            /\ VlanEntries(tap_name(RecoverySpec(resp.name).nics[i].deviceId, resp.name), 1) = {}
            /\ Cardinality(VlanEntries(tap_name(RecoverySpec(resp.name).nics[i].deviceId, resp.name),
                                       vid_from_buri(RecoverySpec(resp.name).nics[i].broadcastUri))) = 1
            /\ \A e \in VlanEntries(tap_name(RecoverySpec(resp.name).nics[i].deviceId, resp.name),
                                    vid_from_buri(RecoverySpec(resp.name).nics[i].broadcastUri)) :
                   e.flags = PvidUntagged

\* C16: VID 0 and VID 1 are never carried on a programmed trunk, in either back end:
\* the switch's uplink never has 0 or 1 among its trunks, and on the Linux bridge the
\* uplink has no entry for VID 0 or VID 1 other than the default one it got as a port.
C16_NoReservedVidOnTrunk ==
    /\ ovs.trunks \cap {0, 1} = {}
    /\ \A e \in vlans :
           (e.port = Uplink /\ e.vid \in {0, 1}) =>
               e = [port |-> Uplink, vid |-> DefaultPvid, flags |-> PvidUntagged]

\* The TAP names of the NICs in a VM's persisted network snapshot.
SnapshotTaps(vm_name) ==
    { tap_name(netsnap[vm_name].nics[i].device_id, vm_name) : i \in 1..Len(netsnap[vm_name].nics) }

\* C17: TAP names never collide across VMs: two VMs with distinct valid names whose
\* networks have been prepared have no TAP name in common.
C17_TapNamesDisjoint ==
    \A n1 \in VmNames, n2 \in VmNames :
        (n1 # n2 /\ validate_name(n1) /\ validate_name(n2)) =>
            SnapshotTaps(n1) \cap SnapshotTaps(n2) = {}

\* ^f\d+-[a-z0-9]{0,10}$
TapNameMatches(t) ==
    \E k \in 1..Len(t) - 2 :
        /\ t[1] = "f"
        /\ \A i \in 2..k + 1 : t[i] \in DigitChars
        /\ t[k + 2] = "-"
        /\ Len(t) - (k + 2) <= 10
        /\ \A i \in k + 3..Len(t) : t[i] \in LowerCase \cup DigitChars

\* C18: the TAP name net-prepare derives for a NIC, and creates, is at most 15 characters long and
\* matches ^f\d+-[a-z0-9]{0,10}$, and no other pair of device index and sanitized VM name
\* among the inputs gives the same TAP name.
C18_TapNameWellFormed ==
    (resp.op = "cli_net_prepare" /\ resp.envOk) =>
        \A i \in 1..Len(resp.req.nics) :
            /\ Len(tap_name(resp.req.nics[i].deviceId, resp.req.name)) <= 15
            /\ TapNameMatches(tap_name(resp.req.nics[i].deviceId, resp.req.name))
            /\ \A p \in TapPayloads : \A j \in 1..Len(p.nics) :
                   tap_name(p.nics[j].deviceId, p.name)
                       = tap_name(resp.req.nics[i].deviceId, resp.req.name)
                   => /\ p.nics[j].deviceId = resp.req.nics[i].deviceId
                      /\ Sanitize(p.name) = Sanitize(resp.req.name)

\* A recover of the VM, sent without a spec, is about to run on a Linux bridge that is
\* present: the VM's snapshot is persisted, every NIC in it has a VLAN id, and none of
\* its TAPs is on the host.
RecoverFromSnapshot(vm_name) ==
    /\ agent_defaults.driver = "linux-bridge-vlan"
    /\ netsnap[vm_name].exists
    /\ netsnap[vm_name].nics # <<>>
    /\ \A i \in 1..Len(netsnap[vm_name].nics) : netsnap[vm_name].nics[i].vlan # NoVid
    /\ taps \cap SnapshotTaps(vm_name) = {}
    /\ resp'.op = "api_recover" /\ resp'.name = vm_name /\ resp'.envOk
    /\ trace' # <<"to_spec">>

RecoverFromPayload(vm_name) ==
    /\ ~netsnap[vm_name].exists
    /\ vm_name \in PayloadKeys
    /\ payload[vm_name].exists
    /\ payload[vm_name].body.nics # <<>>
    /\ resp'.op = "api_recover" /\ resp'.name = vm_name /\ resp'.envOk
    /\ trace' # <<"to_spec">>

\* C20: when no network snapshot is persisted for a VM and the payload create persisted
\* for it exists, recover rebuilds the snapshot from the payload, prepares the network
\* for its NICs, persists the snapshot and succeeds.
C20_RecoverFromCreatePayload ==
    [][\A n \in VmNames :
          RecoverFromPayload(n) =>
              /\ resp'.code = 200
              /\ netsnap'[n].exists
              /\ Len(netsnap'[n].nics) = Len(payload[n].body.nics)
              /\ SnapshotTaps(n)' \subseteq taps']_vars

(* ------------------------------------------------------------------ *)
(* VM details: the persisted request and its redaction                  *)
(* ------------------------------------------------------------------ *)

\* A JSON value: a string, null, an object (its members in order, each a pair of key and
\* value) or an array.  Keys and strings are sequences of one-character strings.
JStr(s) == [t |-> "str", v |-> s]
JNull == [t |-> "null", v |-> <<>>]
JDict(members) == [t |-> "dict", v |-> members]
JList(items) == [t |-> "list", v |-> items]

\* The keys the handler reads.
k_cloudstack_vm_details == <<"c","l","o","u","d","s","t","a","c","k",".","v","m",".","d","e","t","a","i","l","s">>
k_details == <<"d","e","t","a","i","l","s">>
k_externaldetails == <<"e","x","t","e","r","n","a","l","d","e","t","a","i","l","s">>
k_virtualmachine == <<"v","i","r","t","u","a","l","m","a","c","h","i","n","e">>
k_networkIdToNetworkNameMap == <<"n","e","t","w","o","r","k","I","d","T","o","N","e","t","w","o","r","k","N","a","m","e","M","a","p">>
k_nics == <<"n","i","c","s">>
k_External_image == <<"E","x","t","e","r","n","a","l",":","i","m","a","g","e">>
k_image == <<"i","m","a","g","e">>
k_External_kernel == <<"E","x","t","e","r","n","a","l",":","k","e","r","n","e","l">>
k_kernel == <<"k","e","r","n","e","l">>
k_External_boot_args == <<"E","x","t","e","r","n","a","l",":","b","o","o","t","_","a","r","g","s">>
k_boot_args == <<"b","o","o","t","_","a","r","g","s">>
k_cloudstack_vlan == <<"c","l","o","u","d","s","t","a","c","k",".","v","l","a","n">>
k_broadcastUri == <<"b","r","o","a","d","c","a","s","t","U","r","i">>
k_isolationUri == <<"i","s","o","l","a","t","i","o","n","U","r","i">>
k_mac == <<"m","a","c">>
k_ip == <<"i","p">>
k_netmask == <<"n","e","t","m","a","s","k">>
k_gateway == <<"g","a","t","e","w","a","y">>
k_networkId == <<"n","e","t","w","o","r","k","I","d">>
k_uuid == <<"u","u","i","d">>
k_virtualmachineid == <<"v","i","r","t","u","a","l","m","a","c","h","i","n","e","i","d">>
k_uplink == <<"u","p","l","i","n","k">>
k_cpus == <<"c","p","u","s">>
k_minRam == <<"m","i","n","R","a","m">>
k_enableHA == <<"e","n","a","b","l","e","H","A">>
k_limitCpuUse == <<"l","i","m","i","t","C","p","u","U","s","e">>
k_name == <<"n","a","m","e">>

RECURSIVE Member(_, _, _)
\* The value of member key of an object's members, or default.
Member(members, key, default) ==
    IF members = <<>> THEN default
    ELSE IF Head(members)[1] = key THEN Head(members)[2]
    ELSE Member(Tail(members), key, default)

\* dict.get(key, default) and dict.get(key)
GetOr(obj, key, default) == Member(obj.v, key, default)
Get(obj, key) == GetOr(obj, key, JNull)

\* Python truthiness of a JSON value, and "a or b".
Truthy(x) == x.t # "null" /\ x.v # <<>>
Or(a, b) == IF Truthy(a) THEN a ELSE b

\* str(value) of a string or of None
StrOf(x) == IF x.t = "null" THEN <<"N","o","n","e">> ELSE x.v

RECURSIVE Replace(_, _)
\* s.replace(old, "")
Replace(s, old) ==
    IF Len(s) < Len(old) THEN s
    ELSE IF SubSeq(s, 1, Len(old)) = old THEN Replace(SubSeq(s, Len(old) + 1, Len(s)), old)
    ELSE <<Head(s)>> \o Replace(Tail(s), old)

\* nic.get(key, "").replace("vlan://", "")
UriVlan(nic, key) == JStr(Replace(GetOr(nic, key, JStr(<<>>)).v, <<"v","l","a","n",":","/","/">>))

\* [c.lower() for c in key]
Lower(key) == [i \in 1..Len(key) |-> ToLower(key[i])]

sensitive_keys == { <<"p","a","s","s","w","o","r","d">>,
                    <<"s","e","c","r","e","t">>,
                    <<"t","o","k","e","n">>,
                    <<"k","e","y">>,
                    <<"v","n","c","p","a","s","s","w","o","r","d">> }
explicit_keys == { <<"S","S","H",".","P","u","b","l","i","c","K","e","y">> }
Redacted == <<"*","*","*","r","e","d","a","c","t","e","d","*","*","*">>

RECURSIVE redact(_)
\* _sanitize_payload._redact: the value under a sensitive key is replaced whole, any
\* other value is searched.
redact(obj) ==
    IF obj.t = "dict"
    THEN JDict([i \in 1..Len(obj.v) |->
                  IF Lower(obj.v[i][1]) \in sensitive_keys \/ obj.v[i][1] \in explicit_keys
                  THEN <<obj.v[i][1], JStr(Redacted)>>
                  ELSE <<obj.v[i][1], redact(obj.v[i][2])>>])
    ELSE IF obj.t = "list" THEN JList([i \in 1..Len(obj.v) |-> redact(obj.v[i])])
    ELSE obj

\* APIHandlers._sanitize_payload: the copy made through json.dumps and json.loads is
\* equal to the payload, which was itself read from JSON.
sanitize_payload(payload_json) == redact(payload_json)

\* _extract_payload_metadata, lines 790-795
PayloadDetails(raw) == GetOr(raw, k_cloudstack_vm_details, JDict(<<>>))
DetailsSection(raw) ==
    IF Get(PayloadDetails(raw), k_details).t = "dict"
    THEN Get(PayloadDetails(raw), k_details) ELSE JDict(<<>>)
ExternalVm(raw) == GetOr(GetOr(raw, k_externaldetails, JDict(<<>>)), k_virtualmachine, JDict(<<>>))
NetworkMap(raw) == Or(Get(PayloadDetails(raw), k_networkIdToNetworkNameMap), JDict(<<>>))
FirstNic(raw) ==
    IF Truthy(Or(Get(PayloadDetails(raw), k_nics), JList(<<>>)))
    THEN Head(Get(PayloadDetails(raw), k_nics).v) ELSE JDict(<<>>)

\* _extract_payload_metadata, lines 802-812
NicInfo(raw) ==
    IF FirstNic(raw).t = "dict"
    THEN [mac |-> Get(FirstNic(raw), k_mac), ip |-> Get(FirstNic(raw), k_ip),
          netmask |-> Get(FirstNic(raw), k_netmask), gateway |-> Get(FirstNic(raw), k_gateway),
          broadcast_uri |-> Get(FirstNic(raw), k_broadcastUri),
          network_name |-> IF Truthy(NetworkMap(raw))
                           THEN Get(NetworkMap(raw), StrOf(Get(FirstNic(raw), k_networkId)))
                           ELSE JNull]
    ELSE [mac |-> JNull, ip |-> JNull, netmask |-> JNull, gateway |-> JNull,
          broadcast_uri |-> JNull, network_name |-> JNull]

\* APIHandlers._extract_payload_metadata
extract_payload_metadata(raw, path) ==
    [exists |-> TRUE,
     source |-> path,
     cloudstack_vm_id |-> Or(Get(PayloadDetails(raw), k_uuid), Get(raw, k_virtualmachineid)),
     image |-> Or(Get(DetailsSection(raw), k_External_image), Get(ExternalVm(raw), k_image)),
     kernel |-> Or(Get(DetailsSection(raw), k_External_kernel), Get(ExternalVm(raw), k_kernel)),
     boot_args |-> Or(Get(DetailsSection(raw), k_External_boot_args),
                      Get(ExternalVm(raw), k_boot_args)),
     vlan |-> Or(Get(ExternalVm(raw), k_cloudstack_vlan),
                 Or(UriVlan(FirstNic(raw), k_broadcastUri), UriVlan(FirstNic(raw), k_isolationUri))),
     uplink |-> Get(ExternalVm(raw), k_uplink),
     details |-> [cpus |-> Get(PayloadDetails(raw), k_cpus),
                  memory_bytes |-> Get(PayloadDetails(raw), k_minRam),
                  ha_enabled |-> Get(PayloadDetails(raw), k_enableHA),
                  limit_cpu_use |-> Get(PayloadDetails(raw), k_limitCpuUse)],
     nic |-> NicInfo(raw),
     raw |-> sanitize_payload(raw)]

\* v1_vm_details_by_name, lines 371-381: "payload" is None unless the create request of
\* the VM is found in the payload directory.
PayloadInfo(w, vm_name) ==
    IF FilesAt(w, CreateSpecPath(w, vm_name)) = {} THEN [exists |-> FALSE]
    ELSE IF Partial(CHOOSE f \in FilesAt(w, CreateSpecPath(w, vm_name)) : TRUE)
    THEN [exists |-> FALSE]
    ELSE extract_payload_metadata((CHOOSE f \in FilesAt(w, CreateSpecPath(w, vm_name)) : TRUE).body.raw,
                                  CreateSpecPath(w, vm_name))

\* APIHandlers.v1_vm_details_by_name: the reply, with the parts of its body that come from
\* the hypervisor config, the network snapshot and the persisted request.
Details(w, vm_name, found) ==
    IF ~validate_name(vm_name)
    THEN [op |-> "api_details", name |-> vm_name, code |-> 400, status |-> "error", power |-> "",
          exc |-> "HTTPException400", req |-> ByName(vm_name), envOk |-> FALSE]
    ELSE IF ~read_cfg_json_by_name(w, vm_name).exists
    THEN [op |-> "api_details", name |-> vm_name, code |-> 404, status |-> "error", power |-> "",
          exc |-> "HTTPException404", req |-> ByName(vm_name), envOk |-> FALSE]
    ELSE [op |-> "api_details", name |-> vm_name, code |-> 200, status |-> "success",
          power |-> get_vm_status_by_name(w, vm_name, found), exc |-> "ok",
          req |-> ByName(vm_name), envOk |-> FALSE,
          firecracker_config |-> read_cfg_json_by_name(w, vm_name),
          saved_config |-> load_network_config(w, vm_name),
          payload |-> PayloadInfo(w, vm_name)]

\* Requests whose persisted form holds credentials: under keys of every spelling the
\* redaction knows, inside objects and arrays, and in the map of network names, which is
\* keyed by whatever the request's first NIC names as its network.
RawSpec(secret, network_id) ==
    JDict(<< <<k_cloudstack_vm_details,
               JDict(<< <<k_name, JStr(VmA)>>,
                        <<k_uuid, JStr(<<"u","-","1">>)>>,
                        <<<<"v","n","c","P","a","s","s","w","o","r","d">>, JStr(secret)>>,
                        <<k_details, JDict(<< <<<<"S","S","H",".","P","u","b","l","i","c","K","e","y">>, JStr(secret)>>,
                                              <<k_External_image, JStr(<<"a","l","p","i","n","e",".","i","m","g">>)>> >>)>>,
                        <<k_nics, JList(<< JDict(<< <<k_mac, JStr(<<"0","2",":","0","0",":","0","0",":","0","0",":","0","0",":","0","1">>)>>,
                                                    <<k_networkId, JStr(network_id)>>,
                                                    <<<<"S","e","c","r","e","t">>, JDict(<< <<k_name, JStr(secret)>> >>)>> >>) >>)>>,
                        <<k_networkIdToNetworkNameMap,
                          JDict(<< <<network_id,
                                     JStr(IF Lower(network_id) \in sensitive_keys
                                          THEN secret ELSE <<"g","u","e","s","t","-","n","e","t">>)>> >>)>> >>)>>,
             <<k_externaldetails,
               JDict(<< <<k_virtualmachine,
                          JDict(<< <<k_kernel, JStr(<<"v","m","l","i","n","u","x",".","b","i","n">>)>>,
                                   <<<<"T","o","k","e","n">>, JStr(secret)>>,
                                   <<<<"K","E","Y">>, JList(<<JStr(secret)>>)>> >>)>> >>)>>,
             <<<<"p","a","s","s","w","o","r","d">>, JStr(secret)>> >>)

Secrets == { <<"h","u","n","t","e","r","2">>, <<"s","w","o","r","d","f","i","s","h">> }
NetworkIds == { <<"2","0","4">>, <<"t","o","k","e","n">> }
DetailsPayloads ==
    { [name |-> VmA, nics |-> <<>>, kernel |-> "vmlinux.bin", raw |-> RawSpec(s, n)] :
        s \in Secrets, n \in NetworkIds }

\* POST /v1/vms with a request that holds credentials
api_create_details ==
    \E p \in DetailsPayloads :
        Return(ApiCreate(World, p, EnvOk), "api_create", SpecName(p), "", p, TRUE, "create")

\* GET /v1/vms/{vm_name}
v1_vm_details_by_name ==
    \E n \in {VmA, VmB, BadName}, found \in BOOLEAN :
        /\ resp' = Details(World, n, found)
        /\ trace' = <<"details">>
        /\ UNCHANGED <<payload, config, pidfile, socket, logf, volume, lvs, netsnap, vm_states,
                       writing, proc, session,
                       taps, vlans, ovs, fdb, agent_defaults, nextPid, known, threads, vnc>>

NextDetails == api_create_details \/ cli_create \/ v1_vm_details_by_name

SpecDetails == Init /\ [][NextDetails]_vars

\* The names whose values the details reply is to withhold.
SecretName(key) ==
    \/ Lower(key) \in { <<"p","a","s","s","w","o","r","d">>, <<"s","e","c","r","e","t">>,
                        <<"t","o","k","e","n">>, <<"k","e","y">>,
                        <<"v","n","c","p","a","s","s","w","o","r","d">> }
    \/ key = <<"S","S","H",".","P","u","b","l","i","c","K","e","y">>

RECURSIVE WithoutSecrets(_)
\* A JSON value with every value under a secret name left out.
WithoutSecrets(obj) ==
    IF obj.t = "dict"
    THEN JDict([i \in 1..Len(obj.v) |->
                  IF SecretName(obj.v[i][1]) THEN <<obj.v[i][1], JNull>>
                  ELSE <<obj.v[i][1], WithoutSecrets(obj.v[i][2])>>])
    ELSE IF obj.t = "list" THEN JList([i \in 1..Len(obj.v) |-> WithoutSecrets(obj.v[i])])
    ELSE obj

\* The last request was a details request answered with the persisted create request.
DetailsWithPayload ==
    resp.op = "api_details" /\ resp.code = 200 /\ resp.payload.exists

\* C21: the details reply discloses no value that stands, at any depth of the persisted
\* create request, under a key whose lowercased name is password, secret, token, key or
\* vncpassword or whose name is SSH.PublicKey: had the persisted request differed in such
\* values only, the reply would have been the same.
C21_SecretsNeverDisclosed ==
    DetailsWithPayload =>
        \A p \in DetailsPayloads :
            WithoutSecrets(p.raw) = WithoutSecrets(payload[resp.name].body.raw)
            => PayloadInfo(WritePayload(World, p), resp.name) = resp.payload

(* ------------------------------------------------------------------ *)
(* The storage back ends on their own                                   *)
(* ------------------------------------------------------------------ *)

\* A back-end method returns: the volumes are as it left them, and its outcome and the
\* commands it ran are recorded.
StorageReturn(r, op, driver, vm_name, env) ==
    /\ volume' = r.w.volume
    /\ lvs' = r.w.lvs
    /\ resp' = [op |-> op, name |-> vm_name, code |-> 0,
                status |-> IF r.exc = "ok" THEN "success" ELSE "error", power |-> "",
                exc |-> r.exc, req |-> ByName(vm_name), envOk |-> env.imageOk,
                driver |-> driver]
    /\ trace' = r.cmds
    /\ UNCHANGED <<payload, config, pidfile, socket, logf, netsnap, vm_states, writing, proc, session,
                   taps, vlans, ovs, fdb, agent_defaults, nextPid, known, threads, vnc>>

\* get_backend_by_driver(driver, spec, paths).prepare(), with the source image present or
\* missing
StorageBackend_prepare ==
    \E d \in StorageDrivers, env \in {EnvOk, [EnvOk EXCEPT !.imageOk = FALSE]} :
        StorageReturn(backend_prepare(d, World, VmA, env), "storage_prepare", d, VmA, env)

\* get_backend_by_driver(driver, spec, paths).delete()
StorageBackend_delete ==
    \E d \in StorageDrivers :
        StorageReturn(backend_delete(d, World, VmA), "storage_delete", d, VmA, EnvOk)

\* A guest running on a volume writes to it.
GuestWrites ==
    \E d \in StorageDrivers :
        StorageReturn(Ran(IF d = "file"
                          THEN [World EXCEPT !.volume[VmA] =
                                    IF @ = Absent THEN Absent ELSE GuestData]
                          ELSE [World EXCEPT !.lvs[VmLv(VmA)] =
                                    IF @ = Absent THEN Absent ELSE GuestData],
                          "ok", <<>>),
                      "guest_write", d, VmA, EnvOk)

NextStorage == StorageBackend_prepare \/ StorageBackend_delete \/ GuestWrites

SpecStorage == Init /\ [][NextStorage]_vars

\* The commands the last back-end method ran.
Commands == { trace[i] : i \in 1..Len(trace) }

\* The next step is a prepare by the given driver.
Prepares(driver) == resp'.op = "storage_prepare" /\ resp'.driver = driver

\* C22: storage prepare is idempotent.  A prepare that follows a successful prepare of the
\* same volume leaves every volume as it was and neither copies the image to a file nor
\* creates a logical volume; a file prepare whose destination exists leaves the file as
\* it is, whatever it holds; an lvm or lvmthin prepare whose logical volumes exist
\* creates none.
C22_PrepareIdempotent ==
    [][/\ (resp.op = "storage_prepare" /\ resp.exc = "ok" /\ Prepares(resp.driver))
          => (volume' = volume /\ lvs' = lvs /\ "copyfile" \notin Commands'
              /\ "lvcreate" \notin Commands')
       /\ (Prepares("file") /\ volume[resp'.name] # Absent)
          => (volume' = volume /\ "copyfile" \notin Commands')
       /\ (Prepares("lvm") /\ lv_exists(World, VmLv(resp'.name)))
          => ("lvcreate" \notin Commands' /\ lvs'[VmLv(resp'.name)] # Absent)
       /\ (Prepares("lvmthin") /\ lv_exists(World, VmLv(resp'.name))
           /\ lv_exists(World, BaseLv))
          => ("lvcreate" \notin Commands' /\ lvs' = lvs)]_vars

\* A file prepare has found the volume a guest had written to and has left it alone.
C22_Witness ==
    /\ resp.op = "storage_prepare" /\ resp.driver = "file" /\ resp.exc = "ok"
    /\ volume[resp.name] = GuestData
    /\ trace = <<"mkdir", "chmod">>

\* The volume a driver keeps for a VM is absent.
VolumeAbsent(driver, vm_name) ==
    IF driver = "file" THEN volume[vm_name] = Absent ELSE ~lv_exists(World, VmLv(vm_name))

\* C23: for every storage back end, delete() on a volume that is already absent succeeds
\* without raising.
C23_DeleteAbsentSucceeds ==
    [][(resp'.op = "storage_delete" /\ VolumeAbsent(resp'.driver, resp'.name))
       => resp'.exc = "ok"]_vars

\* C24: a create for the name of a VM whose hypervisor is running, on a host where every
\* step can succeed, succeeds and changes nothing: the volume is not copied again, the
\* TAPs and the VLAN table are as they were, and the running hypervisor stays in place.
C24_CreateOnRunningIsNoOp ==
    [][(resp'.op \in {"api_create", "cli_create"} /\ resp'.envOk /\ resp'.name \in VmNames
        /\ proc[resp'.name] # 0)
       => (resp'.exc = "ok" /\ volume' = volume /\ taps' = taps /\ vlans' = vlans
           /\ proc'[resp'.name] = proc[resp'.name])]_vars

(* ------------------------------------------------------------------ *)
(* State manager and the writes of the state-store files                *)
(* ------------------------------------------------------------------ *)

\* VMLifecycle.discover_existing_vms: one entry per config file, with the status found.
discover_existing_vms(w, found) ==
    { [name |-> n, status |-> get_vm_status_by_name(w, n, found)] :
        n \in { m \in VmNames : w.config[m].exists } }

\* StateManager.save_vm_states: only the VMs found powered on are recorded.
save_vm_states(w, discovered_vms) ==
    [w EXCEPT !.vm_states =
        [exists |-> TRUE,
         names |-> { v.name : v \in { d \in discovered_vms : d.status = "poweron" } }]]

\* StateManager.load_vm_states: {} when the file is missing or cannot be parsed.
load_vm_states(w) ==
    IF ~w.vm_states.exists \/ Partial(w.vm_states) THEN {} ELSE w.vm_states.names

\* The state-store files as a writer leaves them between open("w") and close().
PartialSnapshot == [exists |-> TRUE, nics |-> <<>>, partial |-> TRUE]
PartialPayload == [exists |-> TRUE, body |-> Payload(NoName, <<>>, ""), partial |-> TRUE]
PartialStates == [exists |-> TRUE, names |-> {}, partial |-> TRUE]

\* Specs whose network snapshot is saved: one without NICs, one with a VLAN NIC.
SnapshotSpecs ==
    { [name |-> VmA, nics |-> <<>>, kernel |-> "vmlinux.bin"],
      [name |-> VmA,
       nics |-> <<[deviceId |-> 0, mac |-> Mac1, vlan |-> 42, broadcastUri |-> Vlan42]>>,
       kernel |-> "vmlinux.bin"] }

\* A step that leaves everything but the state-store files and the reply as it is.
OnlyStateStore ==
    UNCHANGED <<config, pidfile, socket, logf, volume, lvs, proc, session, taps, vlans, ovs,
                fdb, agent_defaults, nextPid, trace, known, threads, vnc>>

\* save_network_config, line 167: config_file.open("w")
save_network_config_open ==
    \E spec \in SnapshotSpecs :
        /\ writing = NoWrite
        /\ writing' = [kind |-> "network-config", spec |-> spec]
        /\ netsnap' = [netsnap EXCEPT ![spec.name] = PartialSnapshot]
        /\ UNCHANGED <<payload, vm_states, resp>>
        /\ OnlyStateStore

\* save_network_config, lines 168-169: json.dump and the close of the file
save_network_config_close ==
    /\ writing.kind = "network-config"
    /\ writing' = NoWrite
    /\ netsnap' = save_network_config(World, writing.spec).netsnap
    /\ UNCHANGED <<payload, vm_states, resp>>
    /\ OnlyStateStore

\* api_create, line 77: payload_file.open("w")
api_create_open ==
    \E p \in { q \in ApiPayloads : ~HasSlash(PayloadKey(q)) } :
        /\ writing = NoWrite
        /\ writing' = [kind |-> "create-spec", p |-> p]
        /\ payload' = [payload EXCEPT ![PayloadKey(p)] = PartialPayload]
        /\ UNCHANGED <<netsnap, vm_states, resp>>
        /\ OnlyStateStore

\* api_create, lines 78-138: json.dump, the close of the file, and the rest of the handler
api_create_close ==
    /\ writing.kind = "create-spec"
    /\ Return(ApiCreate(World, writing.p, EnvOk), "api_create", SpecName(writing.p), "",
              writing.p, TRUE, "create")

\* v1_save_states and save_vm_states, line 43: state_file.open("w")
v1_save_states_open ==
    \E found \in BOOLEAN :
        /\ writing = NoWrite
        /\ writing' = [kind |-> "vm-states", discovered_vms |-> discover_existing_vms(World, found)]
        /\ vm_states' = PartialStates
        /\ UNCHANGED <<payload, netsnap, resp>>
        /\ OnlyStateStore

\* save_vm_states, lines 44-45, and the return of v1_save_states
v1_save_states_close ==
    /\ writing.kind = "vm-states"
    /\ Return(Reply(save_vm_states(World, writing.discovered_vms), 200, "ok", <<"save_vm_states">>),
              "api_save_states", NoName, "", ByName(NoName), FALSE, "keep")

\* Another request reads the state-store files while the write is under way or after it:
\* GET /v1/vms/{vm_name}/network-config and GET /v1/saved-states.
concurrent_read ==
    \E n \in {VmA} :
        /\ resp' = [op |-> "read", name |-> n, code |-> 200, status |-> "success", power |-> "",
                    exc |-> "ok", req |-> ByName(n), envOk |-> FALSE,
                    network_config |-> load_network_config(World, n),
                    vm_states |-> load_vm_states(World)]
        /\ UNCHANGED <<payload, netsnap, vm_states, writing>>
        /\ OnlyStateStore

NextWrite ==
    \/ save_network_config_open
    \/ save_network_config_close
    \/ api_create_open
    \/ api_create_close
    \/ v1_save_states_open
    \/ v1_save_states_close
    \/ concurrent_read

SpecWrite == Init /\ [][NextWrite]_vars

\* C25: every state-store file is written to a temporary file and renamed over its
\* target, so at no moment, whatever a writer is doing, does a network snapshot, a create
\* payload or the running-set snapshot hold a partially written document: a reader finds
\* the complete previous content, the complete new content, or no file.
C25_StateFilesNeverPartial ==
    /\ \A n \in VmNames : ~Partial(netsnap[n])
    /\ \A k \in PayloadKeys : ~Partial(payload[k])
    /\ ~Partial(vm_states)

\* The steps of a create, in the order the specification gives them.
CreateOrder ==
    <<"to_spec", "validate_name", "storage_prepare", "net_prepare", "save_network_config",
      "write_config", "start_vm">>

IsCreateStep(step) == \E i \in 1..Len(CreateOrder) : CreateOrder[i] = step

\* The steps of CreateOrder the last handler called, in the order it called them.
CreateSteps == SelectSeq(trace, IsCreateStep)

IsCreate == resp.op \in {"api_create", "cli_create"}

\* C26: a create calls its steps in the order storage prepare, network prepare, network
\* snapshot, config write, hypervisor start, and it starts the hypervisor only after
\* storage prepare, network prepare and config write have succeeded: the volume and the
\* config file are then in place.
C26_CreateOrder ==
    IsCreate =>
        /\ CreateSteps = SubSeq(CreateOrder, 1, Len(CreateSteps))
        /\ (\E i \in 1..Len(trace) : trace[i] = "start_vm")
           => (/\ Len(CreateSteps) = Len(CreateOrder)
               /\ volume[resp.name] # Absent
               /\ config[resp.name].exists)

\* A create has gone through all its steps and has started the hypervisor.
C26_Witness ==
    /\ IsCreate /\ resp.exc = "ok"
    /\ CreateSteps = CreateOrder
    /\ proc[resp.name] # 0

(* ------------------------------------------------------------------ *)
(* The create steps and their rollback, given a Spec                    *)
(* ------------------------------------------------------------------ *)

\* The request a Spec is built from.
TryPayload(spec) ==
    Payload(spec.name,
            [i \in 1..Len(spec.nics) |->
                [deviceId |-> spec.nics[i].deviceId, mac |-> spec.nics[i].mac,
                 broadcastUri |-> spec.nics[i].broadcastUri]],
            spec.kernel)

\* api_create, lines 58-138, entered with the Spec that _to_spec is written to build.  In
\* the agent as it stands _to_spec raises on every request, so the steps and the rollback
\* of api_create run only when they are handed a Spec directly.
api_create_try ==
    \E spec \in SnapshotSpecs, env \in Envs :
        Return(CreateTry(WritePayload(World, TryPayload(spec)), [exc |-> "ok", spec |-> spec],
                         spec, env),
               "api_create", spec.name, "", TryPayload(spec), AllSucceed(env), "create")

NextRollback == api_create_try \/ cli_delete \/ ProcExit

SpecRollback == Init /\ [][NextRollback]_vars

IsRollbackStep(step) == step \in {"stop_vm", "net_teardown", "storage_teardown"}

\* The rollback actions the last handler called, in the order it called them.
RollbackSteps == SelectSeq(trace, IsRollbackStep)

\* A create step that was called and returned: a later step was called after it.
StepSucceeded(step) == \E i \in 1..(Len(CreateSteps) - 1) : CreateSteps[i] = step

FailedCreate == IsCreate /\ resp.exc # "ok"

\* C27: a create that failed has rolled back in reverse order: it stopped the hypervisor
\* if it had started it, then tore down networking if it had prepared it, then cleaned up
\* storage if it had prepared it, and ran no rollback action for a step it never reached.
C27_RollbackReverse ==
    FailedCreate =>
        RollbackSteps =
            (IF StepSucceeded("start_vm") THEN <<"stop_vm">> ELSE <<>>)
            \o (IF StepSucceeded("net_prepare") THEN <<"net_teardown">> ELSE <<>>)
            \o (IF StepSucceeded("storage_prepare") THEN <<"storage_teardown">> ELSE <<>>)

\* The exceptions a create step raises.
FailuresOf(step) ==
    CASE step = "to_spec" -> {"ValueError", "TypeError"}
      [] step = "validate_name" -> {"ValueError", "HTTPException400"}
      [] step = "storage_prepare" -> {"FileNotFoundError", "ValueError", "StorageError"}
      [] step = "net_prepare" -> {"NetworkingError"}
      [] step = "write_config" -> {"ValueError", "FileNotFoundError"}
      [] step = "start_vm" -> {"ValueError", "RuntimeError"}
      [] OTHER -> {}

\* The last handler called a rollback action that raised: the storage teardown, which
\* calls a method the storage back end does not have.
RollbackActionFailed ==
    /\ "teardown" \notin FileBackendMethods
    /\ \E i \in 1..Len(trace) : trace[i] = "storage_teardown"

\* C28: when a rollback action of a failed create fails, its failure is swallowed: the
\* rollback actions that remain still run (networking is torn down if it was prepared),
\* and the error the create returns is the failure of the step that made it fail.
C28_RollbackFailureSwallowed ==
    (FailedCreate /\ RollbackActionFailed) =>
        /\ StepSucceeded("net_prepare")
           => (\E i \in 1..Len(trace) : trace[i] = "net_teardown")
        /\ resp.exc \in FailuresOf(CreateSteps[Len(CreateSteps)])
        /\ resp.code = (IF resp.exc \in {"ValueError", "FileNotFoundError"} THEN 400 ELSE 500)

\* A create failed writing the config; its storage teardown raised, its network teardown
\* ran all the same and removed the TAP it had made, and the reply names the missing
\* kernel.
C28_Witness ==
    /\ FailedCreate /\ RollbackActionFailed
    /\ StepSucceeded("net_prepare")
    /\ RollbackSteps = <<"storage_teardown", "net_teardown">>
    /\ resp.exc = "FileNotFoundError"
    /\ taps = {}

(* ------------------------------------------------------------------ *)
(* Delete, for every driver                                             *)
(* ------------------------------------------------------------------ *)

\* VMManager.delete_vm(spec, paths) for the Spec of a VM, with the drivers the Spec may
\* name: the configured networking driver or one the agent does not know, and each storage
\* driver or one the agent does not know.
vm_manager_delete ==
    \E spec \in SnapshotSpecs, cad \in BOOLEAN,
       nd \in {agent_defaults.driver, "none"}, sd \in StorageDrivers \cup {"none"} :
        /\ resp' = [op |-> "delete_vm", name |-> spec.name,
                    code |-> 0,
                    status |-> IF delete_vm_by(World, spec, cad, nd, sd).exc = "ok"
                               THEN "success" ELSE "error",
                    power |-> "", exc |-> delete_vm_by(World, spec, cad, nd, sd).exc,
                    req |-> ByName(spec.name), envOk |-> FALSE,
                    net_driver |-> nd, storage_driver |-> sd]
        /\ trace' = delete_vm_by(World, spec, cad, nd, sd).steps
        /\ payload' = delete_vm_by(World, spec, cad, nd, sd).w.payload
        /\ config' = delete_vm_by(World, spec, cad, nd, sd).w.config
        /\ pidfile' = delete_vm_by(World, spec, cad, nd, sd).w.pidfile
        /\ socket' = delete_vm_by(World, spec, cad, nd, sd).w.socket
        /\ logf' = delete_vm_by(World, spec, cad, nd, sd).w.logf
        /\ volume' = delete_vm_by(World, spec, cad, nd, sd).w.volume
        /\ lvs' = delete_vm_by(World, spec, cad, nd, sd).w.lvs
        /\ proc' = delete_vm_by(World, spec, cad, nd, sd).w.proc
        /\ session' = delete_vm_by(World, spec, cad, nd, sd).w.session
        /\ taps' = delete_vm_by(World, spec, cad, nd, sd).w.taps
        /\ vlans' = delete_vm_by(World, spec, cad, nd, sd).w.vlans
        /\ ovs' = delete_vm_by(World, spec, cad, nd, sd).w.ovs
        /\ fdb' = delete_vm_by(World, spec, cad, nd, sd).w.fdb
        /\ UNCHANGED <<netsnap, vm_states, writing, agent_defaults, nextPid, known, threads, vnc>>

NextDelete == api_create_try \/ vm_manager_delete \/ ProcExit

SpecDelete == Init /\ [][NextDelete]_vars

\* C29: a delete stops the VM, tears down networking, cleans up storage and unlinks the
\* config and the log, in that order.  A networking teardown that fails does not keep the
\* storage cleanup from running; the config and the log are unlinked only when the storage
\* cleanup returned without error, and a storage cleanup that raised is re-raised and
\* leaves them as they were.
C29_DeleteOrder ==
    [][resp'.op = "delete_vm" =>
        /\ trace' = SubSeq(<<"stop_vm", "net_teardown", "storage_cleanup", "unlink">>,
                           1, Len(trace'))
        /\ Len(trace') >= 3
        /\ resp'.exc = "ok"
           => (/\ Len(trace') = 4
               /\ ~config'[resp'.name].exists /\ ~logf'[resp'.name]
               /\ resp'.storage_driver = "file" => volume'[resp'.name] = Absent
               /\ resp'.storage_driver \in {"lvm", "lvmthin"}
                  => lvs'[VmLv(resp'.name)] = Absent)
        /\ resp'.exc # "ok"
           => (Len(trace') = 3 /\ config' = config /\ logf' = logf)]_vars

\* A delete whose storage cleanup raised has left the config file of the VM in place.
C29_Witness ==
    /\ resp.op = "delete_vm" /\ resp.exc = "ValueError"
    /\ trace = <<"stop_vm", "net_teardown", "storage_cleanup">>
    /\ config[resp.name].exists /\ logf[resp.name]

(* ------------------------------------------------------------------ *)
(* Agent startup                                                        *)
(* ------------------------------------------------------------------ *)

\* StateManager.is_server_restart: an empty or missing snapshot is never a server restart;
\* otherwise it is one when no saved VM is among the VMs discovered powered on.
is_server_restart(w, discovered_vms) ==
    IF load_vm_states(w) = {} THEN FALSE
    ELSE load_vm_states(w) \cap { d.name : d \in { v \in discovered_vms : v.status = "poweron" } } = {}

\* A restart that starts the VM without building its Spec from the config.
RestartOne_starts(r, vm_name, env) ==
    [w |-> start_vm(r.w, vm_name, env).w,
     steps |-> r.steps \o <<"restart_vm", "start_vm">>]

\* startup_vm_restart, lines 72-90, for one saved VM: a missing config or a failing
\* _cfg_to_spec is logged and the VM is skipped; r is the startup so far.
RestartOne(r, vm_name, env) ==
    IF ~read_cfg_json_by_name(r.w, vm_name).exists
    THEN [w |-> r.w, steps |-> r.steps \o <<"restart_vm", "read_cfg_json_by_name">>]
    ELSE IF LifecycleCfgToSpec(read_cfg_json_by_name(r.w, vm_name), vm_name).exc # "ok"
    THEN [w |-> r.w,
          steps |-> r.steps \o <<"restart_vm", "read_cfg_json_by_name", "_cfg_to_spec">>]
    ELSE [w |-> start_vm(r.w, vm_name, env).w,
          steps |-> r.steps \o <<"restart_vm", "read_cfg_json_by_name", "_cfg_to_spec",
                                 "start_vm">>]

\* VMLifecycle.startup_vm_restart: every VM of the snapshot in turn.
RECURSIVE startup_vm_restart(_, _, _)
startup_vm_restart(r, saved, env) ==
    IF saved = {} THEN r
    ELSE startup_vm_restart(RestartOne(r, CHOOSE n \in saved : TRUE, env),
                            saved \ {CHOOSE n \in saved : TRUE}, env)

\* A recovery that also starts the hypervisor of each VM it recovers.
RECURSIVE startup_vm_recovery_starting(_, _, _)
startup_vm_recovery_starting(r, todo, env) ==
    IF todo = {} THEN r
    ELSE startup_vm_recovery_starting(
             [w |-> start_vm(recover_vm_networking(r.w, CHOOSE n \in todo : TRUE, env).w,
                             CHOOSE n \in todo : TRUE, env).w,
              steps |-> r.steps \o <<"recover_vm_networking", "start_vm">>],
             todo \ {CHOOSE n \in todo : TRUE}, env)

\* VMLifecycle.startup_vm_recovery_only: networking recovery for every discovered VM whose
\* status is poweron or unknown, in the order of the directory listing.
RECURSIVE startup_vm_recovery_only(_, _, _)
startup_vm_recovery_only(r, todo, env) ==
    IF todo = {} THEN r
    ELSE startup_vm_recovery_only(
             [w |-> recover_vm_networking(r.w, CHOOSE n \in todo : TRUE, env).w,
              steps |-> r.steps \o <<"recover_vm_networking">>],
             todo \ {CHOOSE n \in todo : TRUE}, env)

\* The result of a startup: the host, the steps called, the classification.
Classified(r, restart) == [w |-> r.w, steps |-> r.steps, restart |-> restart]

\* VMLifecycle.startup_vm_recovery: discover, classify, then restart or recover.
startup_vm_recovery(w, found, env) ==
    IF is_server_restart(w, discover_existing_vms(w, found))
    THEN Classified(startup_vm_restart([w |-> w, steps |-> <<>>], load_vm_states(w), env),
                    "server")
    ELSE Classified(startup_vm_recovery_only(
                        [w |-> w, steps |-> <<>>],
                        { d.name : d \in { v \in discover_existing_vms(w, found) :
                                               v.status \in {"poweron", "unknown"} } },
                        env),
                    "daemon")

\* The agent starts (after the host or only the agent went down): a write that was under
\* way is gone with the old process.  The reply keeps which request came last before the
\* start.
agent_startup ==
    \E found \in BOOLEAN, env \in {EnvOk, [EnvOk EXCEPT !.bridgeOk = FALSE]} :
        /\ startup_vm_recovery(World, found, env).w.nextPid <= MaxPid + 1
        /\ resp' = [op |-> "startup", name |-> NoName, code |-> 0, status |-> "success",
                    power |-> "", exc |-> "ok", req |-> ByName(NoName), envOk |-> env.bridgeOk,
                    restart |-> startup_vm_recovery(World, found, env).restart,
                    after |-> [op |-> resp.op, name |-> resp.name, exc |-> resp.exc]]
        /\ trace' = startup_vm_recovery(World, found, env).steps
        /\ writing' = NoWrite
        /\ payload' = startup_vm_recovery(World, found, env).w.payload
        /\ config' = startup_vm_recovery(World, found, env).w.config
        /\ pidfile' = startup_vm_recovery(World, found, env).w.pidfile
        /\ socket' = startup_vm_recovery(World, found, env).w.socket
        /\ logf' = startup_vm_recovery(World, found, env).w.logf
        /\ volume' = startup_vm_recovery(World, found, env).w.volume
        /\ lvs' = startup_vm_recovery(World, found, env).w.lvs
        /\ netsnap' = startup_vm_recovery(World, found, env).w.netsnap
        /\ vm_states' = startup_vm_recovery(World, found, env).w.vm_states
        /\ proc' = startup_vm_recovery(World, found, env).w.proc
        /\ session' = startup_vm_recovery(World, found, env).w.session
        /\ taps' = startup_vm_recovery(World, found, env).w.taps
        /\ vlans' = startup_vm_recovery(World, found, env).w.vlans
        /\ ovs' = startup_vm_recovery(World, found, env).w.ovs
        /\ fdb' = startup_vm_recovery(World, found, env).w.fdb
        /\ nextPid' = startup_vm_recovery(World, found, env).w.nextPid
        /\ UNCHANGED <<agent_defaults, known, threads, vnc>>

NextRestart ==
    \/ cli_create
    \/ v1_save_states_open
    \/ v1_save_states_close
    \/ ProcExit
    \/ TapRemoved
    \/ agent_startup

SpecRestart == Init /\ [][NextRestart]_vars

\* The hypervisor process of the VM is alive.
CurrentlyRunning(vm_name) == proc[vm_name] # 0

\* C30: when the agent starts, the startup is classified as a host restart exactly when
\* none of the VMs recorded in the running-set snapshot is running at that moment, and as
\* an agent restart otherwise.
C30_RestartClassified ==
    [][resp'.op = "startup" =>
        (resp'.restart = "server"
            <=> \A n \in load_vm_states(World) : ~CurrentlyRunning(n))]_vars

(* ------------------------------------------------------------------ *)
(* Agent startup over a running-set snapshot                            *)
(* ------------------------------------------------------------------ *)

\* The agent starts on a host whose run_dir holds the vm-states.json of an earlier run.
SavedSets == { {}, {VmA}, {VmA, VmB} }

InitSaved ==
    \E saved \in SavedSets : HostAtStart(DefaultConfig, [exists |-> TRUE, names |-> saved])

NextStartup ==
    \/ cli_create
    \/ cli_stop
    \/ v1_vm_stop_by_name
    \/ ProcExit
    \/ agent_startup

SpecStartup == InitSaved /\ [][NextStartup]_vars

\* Position i of the steps is in the restart of a VM whose networking recovery has run.
RecoveredBefore(steps, i) ==
    \E j \in 1..(i - 1) :
        /\ steps[j] = "recover_vm_networking"
        /\ \A k \in j..i : steps[k] # "restart_vm"

StopOps == {"api_stop", "cli_stop"}

C32_AgentRestartFrame ==
    [][(resp'.op = "startup" /\ resp'.restart = "daemon")
        => /\ proc' = proc
           /\ session' = session
           /\ pidfile' = pidfile
           /\ socket' = socket
           /\ config' = config]_vars

\* An agent restart has run the networking recovery of a VM whose hypervisor is running.
C32_Witness ==
    /\ resp.op = "startup" /\ resp.restart = "daemon"
    /\ trace = <<"recover_vm_networking">>
    /\ config[VmA].exists /\ proc[VmA] # 0 /\ session[VmA]

(* ------------------------------------------------------------------ *)
(* The uplink after a teardown                                          *)
(* ------------------------------------------------------------------ *)

\* The VLAN ids the uplink carries: the trunks of the switch's uplink port, or the VIDs of
\* the uplink in the bridge's VLAN table other than the default entry it has as a port.
UplinkVids(driver, tbl, o) ==
    IF driver = "ovs-vlan" THEN o.trunks
    ELSE { e.vid : e \in { x \in tbl : x.port = Uplink
                                        /\ ~(x.vid = DefaultPvid /\ x.flags = PvidUntagged) } }

\* The VLAN ids some TAP of the bridge, or some access port of the switch, still uses.
ReferencedVids(driver, links, tbl, o) ==
    IF driver = "ovs-vlan"
    THEN { q.tag : q \in { x \in o.ports : x.name # Uplink /\ x.tag # NoVid } }
    ELSE { e.vid : e \in { x \in tbl : x.port \in links } }

\* C33: after the teardown of one VM the uplink carries exactly the VLAN ids it carried
\* before, less those no remaining TAP (linux-bridge-vlan) or access port (ovs-vlan)
\* uses: a VID another VM's port still uses stays, a VID no remaining port uses goes.
C33_UplinkAfterTeardown ==
    [][(resp'.op = "cli_net_teardown" /\ resp'.exc = "ok")
        => UplinkVids(agent_defaults.driver, vlans', ovs')
           = UplinkVids(agent_defaults.driver, vlans, ovs)
             \cap ReferencedVids(agent_defaults.driver, taps', vlans', ovs')]_vars

(* ------------------------------------------------------------------ *)
(* Networking calls of different VMs side by side                       *)
(* ------------------------------------------------------------------ *)

\* A VM whose TAP names differ from those of vm-a.
VmLong == CHOOSE n \in LongNames : TRUE

\* Two VMs with one NIC each, both on VLAN 42.
RaceSpecs ==
    { [name |-> VmA,
       nics |-> <<[deviceId |-> 0, mac |-> Mac1, vlan |-> 42, broadcastUri |-> Vlan42]>>,
       kernel |-> "vmlinux.bin"],
      [name |-> VmLong,
       nics |-> <<[deviceId |-> 0, mac |-> "02:00:00:00:00:02", vlan |-> 42,
                   broadcastUri |-> Vlan42]>>,
       kernel |-> "vmlinux.bin"] }

\* A call under way: its operation, the step it is to take next, its Spec, and the trunks
\* or uplink VIDs and the VIDs in use it has read.
Call(op, pc, spec, current, in_use) ==
    [op |-> op, pc |-> pc, spec |-> spec, current |-> current, in_use |-> in_use]

\* The calls under way when call t has returned.
Returned(t) == [x \in DOMAIN threads \ {t} |-> threads[x]]

RECURSIVE PrepareTaps(_, _, _)
\* The per-NIC part of prepare in either back end: the TAP and its VID.
PrepareTaps(w, nics, vm_name) ==
    IF nics = <<>> THEN w
    ELSE IF Head(nics).mac = "" THEN PrepareTaps(w, Tail(nics), vm_name)
    ELSE PrepareTaps(
             IF w.agent_defaults.driver = "ovs-vlan"
             THEN [OvsEnsureTap([w EXCEPT !.ovs = ensure_port(@, Uplink)],
                                tap_name(Head(nics).deviceId, vm_name)) EXCEPT
                      !.ovs = set_port_tag(@, tap_name(Head(nics).deviceId, vm_name),
                                           vid_from_buri(Head(nics).broadcastUri))]
             ELSE PrimeFdb(ProgramTap(EnsureTap(w, tap_name(Head(nics).deviceId, vm_name)),
                                      tap_name(Head(nics).deviceId, vm_name),
                                      vid_from_buri(Head(nics).broadcastUri)),
                           tap_name(Head(nics).deviceId, vm_name), Head(nics).mac,
                           vid_from_buri(Head(nics).broadcastUri)),
             Tail(nics), vm_name)

RECURSIVE ProgramUplinks(_, _)
\* The uplink part of LinuxBridgeVlanBackend.prepare for the NICs of a Spec.
ProgramUplinks(w, nics) ==
    IF nics = <<>> THEN w
    ELSE IF Head(nics).mac = "" THEN ProgramUplinks(w, Tail(nics))
    ELSE ProgramUplinks(ProgramUplink(w, vid_from_buri(Head(nics).broadcastUri)), Tail(nics))

\* The VIDs OvsVlanBackend.prepare collects for the uplink's trunks.
NicVids(nics) ==
    { vid_from_buri(nics[i].broadcastUri) : i \in { j \in 1..Len(nics) : nics[j].mac # "" } }

\* A step of a networking call leaves the files, the processes and the last reply alone.
OnlyNetwork(w) ==
    /\ taps' = w.taps
    /\ vlans' = w.vlans
    /\ ovs' = w.ovs
    /\ fdb' = w.fdb
    /\ UNCHANGED <<payload, config, pidfile, socket, logf, volume, lvs, netsnap, vm_states,
                   writing, proc, session, agent_defaults, nextPid, resp, trace, known, vnc>>

\* prepare() is called for a VM with no call under way: its TAP is created, attached and
\* given its VID.
net_prepare_taps ==
    \E spec \in RaceSpecs :
        /\ spec.name \notin DOMAIN threads
        /\ OnlyNetwork(PrepareTaps(World, spec.nics, spec.name))
        /\ threads' = (spec.name :> Call("prepare",
                                         IF agent_defaults.driver = "ovs-vlan" THEN "read"
                                         ELSE "write", spec, {}, {})) @@ threads

\* _add_uplink_trunks, lines 339-347: the uplink's trunks are read from the switch database.
net_prepare_read ==
    \E t \in DOMAIN threads :
        /\ threads[t].op = "prepare" /\ threads[t].pc = "read"
        /\ OnlyNetwork(World)
        /\ threads' = [threads EXCEPT ![t] = Call("prepare", "write", @.spec, ovs.trunks, {})]

\* prepare adds the VID on the uplink (bridge vlan add), or writes the trunks it read,
\* joined with the VIDs of the NICs, and returns.
net_prepare_uplink ==
    \E t \in DOMAIN threads :
        /\ threads[t].op = "prepare" /\ threads[t].pc = "write"
        /\ OnlyNetwork(IF agent_defaults.driver = "ovs-vlan"
                       THEN [World EXCEPT !.ovs =
                                set_uplink_trunks(@, threads[t].current,
                                                  threads[t].current
                                                  \cup NicVids(threads[t].spec.nics))]
                       ELSE ProgramUplinks(World, threads[t].spec.nics))
        /\ threads' = Returned(t)

\* teardown() is called for a VM with no call under way: its links, and its ports on the
\* switch, are deleted.
net_teardown_links ==
    \E spec \in RaceSpecs :
        /\ spec.name \notin DOMAIN threads
        /\ OnlyNetwork(TeardownLinks(World, spec))
        /\ threads' = (spec.name :> Call("teardown", "read", spec, {}, {})) @@ threads

\* cleanup_uplink_vlans, lines 260-264, or _remove_unused_uplink_trunks, lines 367-377:
\* the VIDs on the uplink and the VIDs in use are read.
net_teardown_read ==
    \E t \in DOMAIN threads :
        /\ threads[t].op = "teardown" /\ threads[t].pc = "read"
        /\ OnlyNetwork(World)
        /\ threads' = [threads EXCEPT ![t] =
                          IF agent_defaults.driver = "ovs-vlan"
                          THEN Call("teardown", "write", @.spec, ovs.trunks,
                                    get_bridge_vids_in_use(ovs))
                          ELSE Call("teardown", "write", @.spec, uplink_vids(World),
                                    vids_in_use(World))]

\* teardown deletes from the uplink the VIDs it read as unused, or writes the trunks it
\* read, cut down to the VIDs it read in use, and returns.
net_teardown_uplink ==
    \E t \in DOMAIN threads :
        /\ threads[t].op = "teardown" /\ threads[t].pc = "write"
        /\ OnlyNetwork(IF agent_defaults.driver = "ovs-vlan"
                       THEN [World EXCEPT !.ovs =
                                set_uplink_trunks(@, threads[t].current,
                                                  threads[t].current \cap threads[t].in_use)]
                       ELSE cleanup_uplink_del(World, threads[t].current, threads[t].in_use))
        /\ threads' = Returned(t)

InitRace ==
    \E d \in {"linux-bridge-vlan", "ovs-vlan"} : CleanHost([DefaultConfig EXCEPT !.driver = d])

NextRace ==
    \/ net_prepare_taps
    \/ net_prepare_read
    \/ net_prepare_uplink
    \/ net_teardown_links
    \/ net_teardown_read
    \/ net_teardown_uplink

SpecRace == InitRace /\ [][NextRace]_vars

\* The VLAN ids the uplink carries, its default one included.
UplinkCarries ==
    IF agent_defaults.driver = "ovs-vlan" THEN ovs.trunks ELSE port_vids(vlans, Uplink)

\* C34: the networking back end serializes the operations of different VMs on the shared
\* bridge and uplink: whatever the interleaving of prepare and teardown calls of distinct
\* VMs, once every call has returned each VID programmed on an attached TAP is carried on
\* the uplink too.
C34_UplinkCarriesTapVids ==
    DOMAIN threads = {}
        => ReferencedVids(agent_defaults.driver, taps, vlans, ovs) \subseteq UplinkCarries

(* ------------------------------------------------------------------ *)
(* Requests for one VM side by side                                     *)
(* ------------------------------------------------------------------ *)

\* Two fc-agent processes run a create and a delete for the same VM.  Nothing in
\* CLICommands or VMManager takes a lock, so their steps interleave at every call that
\* touches the host.  The host answers every step (EnvOk), so no step fails on its own.

\* The payload files the two commands are given.
RequestPayloads == { p \in CliPayloads : CliToSpec(p).exc = "ok" }

\* A step of a request leaves the host as w.
HostBecomes(w) ==
    /\ w.nextPid <= MaxPid + 1
    /\ payload' = w.payload
    /\ config' = w.config
    /\ pidfile' = w.pidfile
    /\ socket' = w.socket
    /\ logf' = w.logf
    /\ volume' = w.volume
    /\ lvs' = w.lvs
    /\ netsnap' = w.netsnap
    /\ vm_states' = w.vm_states
    /\ proc' = w.proc
    /\ session' = w.session
    /\ taps' = w.taps
    /\ vlans' = w.vlans
    /\ ovs' = w.ovs
    /\ fdb' = w.fdb
    /\ agent_defaults' = w.agent_defaults
    /\ nextPid' = w.nextPid

\* A request takes a step and goes on.
GoesOn == UNCHANGED <<writing, resp, trace, known, vnc>>

\* A request returns r.
Replies(r, op, name, req, effect) ==
    /\ resp' = [op |-> op, name |-> name, code |-> r.code, status |-> r.status,
                power |-> "", exc |-> r.exc, req |-> req, envOk |-> TRUE]
    /\ trace' = r.steps
    /\ known' = History(r, name, effect)
    /\ UNCHANGED <<writing, vnc>>

\* CLICommands.create, lines 48-70: everything before start_vm.
CreateWritten(w, p) ==
    StepWriteConfig(
      StepSaveNet(
        StepNet(
          StepStorage(
            StepValidate(StepToSpec(w, CliToSpec(p)), CliToSpec(p).spec, "ValueError"),
            CliToSpec(p).spec, EnvOk),
          CliToSpec(p).spec, EnvOk),
        CliToSpec(p).spec),
      CliToSpec(p).spec, EnvOk)

\* What the launch of the hypervisor finds: firecracker exits at once when the file named
\* by --config-file is missing, and no PID is found then.
LaunchEnv(w, vm_name) ==
    [EnvOk EXCEPT !.launched = w.config[vm_name].exists,
                  !.pidFound = w.config[vm_name].exists]

\* fc-agent create, up to write_config.  A step that raises ends the command.
cli_create_write ==
    \E p \in RequestPayloads :
        /\ "create" \notin DOMAIN threads
        /\ HostBecomes(CreateWritten(World, p).w)
        /\ IF CreateWritten(World, p).exc = "ok"
           THEN /\ GoesOn
                /\ threads' = ("create" :> Call("create", "clean", p, {}, {})) @@ threads
           ELSE /\ Replies(CliReply(CreateWritten(World, p)), "cli_create", SpecName(p), p,
                           "create")
                /\ threads' = threads

\* fc-agent create, start_vm lines 36-50.
cli_create_clean ==
    /\ "create" \in DOMAIN threads
    /\ threads["create"].pc = "clean"
    /\ HostBecomes(StartClean(World, SpecName(threads["create"].spec), EnvOk))
    /\ GoesOn
    /\ threads' = [threads EXCEPT !["create"].pc = "launch"]

\* fc-agent create, start_vm lines 51-83, and the command's reply.
cli_create_launch ==
    /\ "create" \in DOMAIN threads
    /\ threads["create"].pc = "launch"
    /\ LET p == threads["create"].spec
           r == StartLaunch(World, SpecName(p), LaunchEnv(World, SpecName(p)))
       IN  /\ HostBecomes(r.w)
           /\ Replies(CliDone(r, <<"to_spec", "validate_name", "storage_prepare",
                                   "net_prepare", "save_network_config", "write_config",
                                   "start_vm">>),
                      "cli_create", SpecName(p), p, "create")
    /\ threads' = Returned("create")

\* fc-agent delete, delete_vm line 149: stop_vm.
cli_delete_stop ==
    \E p \in RequestPayloads, cad \in BOOLEAN :
        /\ "delete" \notin DOMAIN threads
        /\ HostBecomes(stop_vm(World, SpecName(p), cad))
        /\ GoesOn
        /\ threads' = ("delete" :> Call("delete", "teardown", p, {}, {})) @@ threads

\* fc-agent delete, delete_vm lines 150-165: network teardown and storage cleanup.
cli_delete_teardown ==
    /\ "delete" \in DOMAIN threads
    /\ threads["delete"].pc = "teardown"
    /\ LET p == threads["delete"].spec
       IN  HostBecomes(backend_cleanup("file",
                                       DeleteTeardown(World, CliToSpec(p).spec,
                                                      agent_defaults.driver),
                                       SpecName(p)).w)
    /\ GoesOn
    /\ threads' = [threads EXCEPT !["delete"].pc = "unlink"]

\* fc-agent delete, delete_vm lines 166-171 and CLICommands.delete lines 128-133: the
\* config and log files, the network snapshot and the payload are removed.
cli_delete_unlink ==
    /\ "delete" \in DOMAIN threads
    /\ threads["delete"].pc = "unlink"
    /\ LET p == threads["delete"].spec
           w == cleanup_payload(cleanup_network_config(DeleteUnlink(World, SpecName(p)),
                                                       SpecName(p)),
                                SpecName(p))
       IN  /\ HostBecomes(w)
           /\ Replies(CliDone(Done(w), <<"to_spec", "delete_vm", "cleanup_network_config",
                                         "cleanup_payload">>),
                      "cli_delete", SpecName(p), p, "delete")
    /\ threads' = Returned("delete")

NextRequests ==
    \/ cli_create_write
    \/ cli_create_clean
    \/ cli_create_launch
    \/ cli_delete_stop
    \/ cli_delete_teardown
    \/ cli_delete_unlink

SpecRequests == Init /\ [][NextRequests]_vars

\* C35: requests for one VM are serialized, so that once every request has returned no
\* hypervisor process is running for a VM whose config file a delete has removed.
C35_NoHypervisorWithoutConfig ==
    DOMAIN threads = {} => \A n \in VmNames : proc[n] # 0 => config[n].exists

(* ------------------------------------------------------------------ *)
(* The timers of the primed forwarding entries                          *)
(* ------------------------------------------------------------------ *)

\* The NICs of the payloads the orchestrator sends, each with the name of its VM.
PayloadNics ==
    UNION { { [vm |-> SpecName(p), nic |-> p.nics[i]] : i \in 1..Len(p.nics) } :
              p \in NetPayloads }

\* The entries prepare can prime for them.
PrimedEntries ==
    { FdbEntry(tap_name(a.nic.deviceId, a.vm), a.nic.mac, vid_from_buri(a.nic.broadcastUri),
               kind) :
        a \in PayloadNics, kind \in {"permanent", "static"} }

\* The timer of an entry has fired.
Fired(e) == [e EXCEPT !.armed = FALSE]

\* _del_fdb: ip.fdb("del", ...) on the IPRoute handle of the prepare that armed the timer.
\* A closed handle raises, and _del_fdb swallows the exception.
ip_fdb_del(entries, e, closed) ==
    IF closed THEN (entries \ {e}) \cup {Fired(e)} ELSE entries \ {e}

\* _del_fdb_bridge: bridge fdb del ... master static, run as a command of its own.
bridge_fdb_del(entries, e) == entries \ {e}

\* A timer thread takes its step; no request is answered.
TimerStep(entries) ==
    /\ fdb' = entries
    /\ UNCHANGED <<payload, config, pidfile, socket, logf, volume, lvs, netsnap, vm_states,
                   writing, proc, session, taps, vlans, ovs, agent_defaults, nextPid, resp,
                   trace, known, threads, vnc>>

\* threading.Timer(8.0, _del_fdb) fires.  prepare closed its handle in its finally clause
\* before it returned, eight seconds earlier.
del_fdb(e) ==
    /\ e \in fdb
    /\ e.kind = "permanent"
    /\ TimerStep(ip_fdb_del(fdb, e, TRUE))

\* threading.Timer(8.0, _del_fdb_bridge) fires.
del_fdb_bridge(e) ==
    /\ e \in fdb
    /\ e.kind = "static"
    /\ TimerStep(bridge_fdb_del(fdb, e))

timer_del_fdb == \E e \in PrimedEntries : del_fdb(e)

timer_del_fdb_bridge == \E e \in PrimedEntries : del_fdb_bridge(e)

NextFdb ==
    \/ api_create_vlan
    \/ v1_vm_recover_by_name
    \/ TapRemoved
    \/ timer_del_fdb
    \/ timer_del_fdb_bridge

\* A timer that was started fires.
SpecFdb ==
    /\ InitNet
    /\ [][NextFdb]_vars
    /\ \A e \in PrimedEntries : WF_vars(del_fdb(e)) /\ WF_vars(del_fdb_bridge(e))

\* An entry for the port, address, VID and kind of e is in the forwarding database.
Primed(e) == \E x \in fdb : Fired(x) = Fired(e)

\* C36: every forwarding entry prepare has primed, the permanent one and the
\* master-static one, is eventually gone from the forwarding database: its timer
\* deletes it, or its TAP was removed first.
C36_FdbEntriesExpire == \A e \in PrimedEntries : Primed(e) ~> ~Primed(e)

(* ------------------------------------------------------------------ *)
(* The TAPs a config file names                                         *)
(* ------------------------------------------------------------------ *)

\* nic_data.get("mac", ""): a NIC the payload gives no address for.
NicNoMac == [NicVlan EXCEPT !.mac = ""]

\* Payload files handed to fc-agent create: no NIC, a NIC with an address, a NIC without.
NicPayloads == { Payload(VmA, <<>>, "vmlinux.bin"), Payload(VmA, <<NicVlan>>, "vmlinux.bin"),
                 Payload(VmA, <<NicNoMac>>, "vmlinux.bin") }

\* fc-agent create --spec FILE
cli_create_nics ==
    \E p \in NicPayloads, env \in Envs :
        Return(CliCreate(World, p, env), "cli_create", SpecName(p), "", p,
               AllSucceed(env), "create")

NextNics == cli_create_nics \/ api_create_try \/ cli_delete

SpecNics == Init /\ [][NextNics]_vars

\* The TAP link exists and is a port of the bridge, or of the switch.
Attached(tap) ==
    /\ tap \in taps
    /\ IF agent_defaults.driver = "ovs-vlan" THEN \E q \in ovs.ports : q.name = tap
       ELSE \E e \in vlans : e.port = tap

\* C38: after a successful create, every network-interface entry of the VM's config file
\* names as host_dev_name a TAP that exists and is attached to the bridge.
C38_ConfigNamesProgrammedTaps ==
    (resp.op \in {"cli_create", "api_create"} /\ resp.status = "success")
        => /\ config[resp.name].exists
           /\ \A i \in 1..Len(config[resp.name].nics) :
                  Attached(config[resp.name].nics[i].host_dev_name)

(* ------------------------------------------------------------------ *)
(* Where a create writes                                                *)
(* ------------------------------------------------------------------ *)

\* Names a create request may carry: valid, invalid, with path separators, missing.
RequestNames == {VmA, BadName, SlashName, DotDotName, NoName}

NamedPayloads == { Payload(n, <<>>, "vmlinux.bin") : n \in RequestNames }

\* POST /v1/vms
api_create_named ==
    \E p \in NamedPayloads, env \in {EnvOk, [EnvOk EXCEPT !.imageOk = FALSE]} :
        Return(ApiCreate(World, p, env), "api_create", SpecName(p), "", p,
               AllSucceed(env), "create")

\* fc-agent create --spec FILE
cli_create_named ==
    \E p \in NamedPayloads, env \in {EnvOk, [EnvOk EXCEPT !.imageOk = FALSE]} :
        Return(CliCreate(World, p, env), "cli_create", SpecName(p), "", p,
               AllSucceed(env), "create")

NextPaths == api_create_named \/ cli_create_named \/ cli_delete

SpecPaths == Init /\ [][NextPaths]_vars

RECURSIVE Split(_)
\* The components of a relative path: str.split("/").
Split(s) ==
    IF ~HasSlash(s) THEN <<s>>
    ELSE LET i == CHOOSE k \in 1..Len(s) : s[k] = "/" /\ \A j \in 1..(k - 1) : s[j] # "/"
         IN  <<SubSeq(s, 1, i - 1)>> \o Split(SubSeq(s, i + 1, Len(s)))

RECURSIVE Depth(_, _)
\* How far below the directory it is joined to a path ends, as the kernel resolves it;
\* negative once a ".." has climbed above that directory.
Depth(parts, d) ==
    IF parts = <<>> \/ d < 0 THEN d
    ELSE IF Head(parts) = <<".", ".">> THEN Depth(Tail(parts), d - 1)
    ELSE IF Head(parts) \in {<<>>, <<".">>} THEN Depth(Tail(parts), d)
    ELSE Depth(Tail(parts), d + 1)

\* The file at dir / file lies under dir.
Under(path) == Depth(Split(path.file), 0) >= 1

\* <root>/<vm_name><suffix>: the shape of paths() and paths_by_name() for every by-name
\* artifact.
ByNamePath(root, vm_name, suffix) == [dir |-> root, file |-> vm_name \o suffix]

\* The steps of a create that create or overwrite files.
WritingSteps == {"storage_prepare", "save_network_config", "write_config", "start_vm"}

\* C39: whatever name a create request carries, every payload file and every by-name
\* artifact the host holds lies under its configured root, and a create for a name that
\* fails validation performs no step that writes a by-name artifact.
C39_FilesUnderRoots ==
    /\ \A k \in DOMAIN payload : payload[k].exists => Under(CreateSpecPath(World, k))
    /\ \A n \in VmNames :
           (config[n].exists \/ pidfile[n] # 0 \/ socket[n] \/ logf[n] \/ netsnap[n].exists
            \/ volume[n] # Absent)
               => Under(ByNamePath("root", n, <<".","j","s","o","n">>))
    /\ (resp.op \in {"api_create", "cli_create"} /\ ~validate_name(resp.name))
           => \A i \in 1..Len(trace) : trace[i] \notin WritingSteps

\* A request whose name climbs out of payload_dir was refused after a request with an
\* invalid name left its payload file.
C39_Witness ==
    /\ resp.op = "api_create"
    /\ resp.name = DotDotName
    /\ resp.exc = "FileNotFoundError"
    /\ payload[BadName].exists

(* ------------------------------------------------------------------ *)
(* Console bridges and their watchers                                   *)
(* ------------------------------------------------------------------ *)

\* The console bridges started in a behaviour.
MaxBridges == 3

\* A step of the console manager leaves the rest of the host and the last reply alone.
ConsoleStep(c) ==
    /\ vnc' = c
    /\ UNCHANGED <<payload, config, pidfile, socket, logf, volume, lvs, netsnap, vm_states,
                   writing, proc, session, taps, vlans, ovs, fdb, agent_defaults, nextPid,
                   resp, trace, known>>

\* _state_active: every process the state file names is running.
state_active(c) == c.state \in c.alive

\* _cleanup_state(state): the processes of the bridge the state names are terminated.
cleanup_state(c, b) == [c EXCEPT !.alive = @ \ {b}]

\* VNCConsoleManager.stop_console: the state file is loaded, the bridge it names is torn
\* down and the file is removed.
stop_console_of(c) ==
    IF c.state = 0 THEN c ELSE [cleanup_state(c, c.state) EXCEPT !.state = 0]

\* The watcher _monitor_console starts for bridge b.
Watcher(b) == [op |-> "watch", pc |-> "wait", bridge |-> b]

\* VNCConsoleManager.ensure_console(vm_name): an active bridge is reused; a stale one is
\* cleaned up; without the session fc-<vm> the call raises; else a bridge is started, its
\* state written and its watcher started.
ensure_console ==
    /\ vnc.next <= MaxBridges
    /\ IF vnc.state # 0 /\ state_active(vnc)
       THEN ConsoleStep(vnc) /\ threads' = threads
       ELSE IF ~session[VmA]
       THEN ConsoleStep(cleanup_state(vnc, vnc.state)) /\ threads' = threads
       ELSE /\ ConsoleStep([state |-> vnc.next,
                            alive |-> cleanup_state(vnc, vnc.state).alive \cup {vnc.next},
                            next |-> vnc.next + 1])
            /\ threads' = (vnc.next :> Watcher(vnc.next)) @@ threads

\* VNCConsoleManager.stop_console(vm_name)
stop_console ==
    /\ vnc.state # 0
    /\ ConsoleStep(stop_console_of(vnc))
    /\ threads' = threads

\* The framebuffer process of a bridge exits.
x11vnc_exits ==
    \E b \in vnc.alive :
        /\ ConsoleStep(cleanup_state(vnc, b))
        /\ threads' = threads

\* _watch: proc.wait() returns once the framebuffer process of the watcher's bridge is
\* gone; the finally clause then calls stop_console(vm_name) when a state file exists.
console_watch ==
    \E b \in DOMAIN threads :
        /\ threads[b].op = "watch"
        /\ b \notin vnc.alive
        /\ ConsoleStep(stop_console_of(vnc))
        /\ threads' = Returned(b)

NextConsole ==
    \/ cli_create
    \/ cli_stop
    \/ ensure_console
    \/ stop_console
    \/ x11vnc_exits
    \/ console_watch

SpecConsole == Init /\ [][NextConsole]_vars

\* C40: the watcher of a bridge tears down only that bridge: when it runs, the processes
\* of every other bridge keep running and a state file naming another bridge stays.
C40_WatcherOwnBridge ==
    [][\A b \in DOMAIN threads :
          (b \notin DOMAIN threads' /\ threads[b].op = "watch")
              => /\ vnc'.alive \ {b} = vnc.alive \ {b}
                 /\ vnc.state \notin {0, b} => vnc'.state = vnc.state]_vars

====
